---- MODULE Spec2Model ----
(***************************************************************************)
(* Digest tree construction (src/core/digest_layer.py) and the             *)
(* hierarchical retrieval index (src/core/retrieval_index.py) of           *)
(* report_creator, with the generative-service adapter of src/utils.       *)
(*                                                                         *)
(* A text is a sequence of one-character strings and opaque word tokens;   *)
(* " " is the whitespace character.  List indices are 0-based as in the    *)
(* source; TLA+ sequences are 1-based, so list element i is seq[i + 1].    *)
(***************************************************************************)
EXTENDS Integers, Sequences, FiniteSets, TLC

\* ------------------------------------------------------------------ bounds
MaxFacts == 101
MaxIndexedFacts == 3
MaxAdds == 2
MaxK == 2
MaxCalls == 1
MAX_ACTIVE_INDICES == 10

\* --------------------------------------------------------------- constants
LEAF_SIZE == 10
BRANCH_SIZE == 10
SLISUM_MIN_FACTS == 5
SLISUM_WINDOW == 7
CALLS_PER_MINUTE == 30

VARIABLES
    pc,                   \* position inside DigestLayer.digest_facts
    facts,                \* argument of digest_facts
    abstracts,            \* _create_leaf_abstracts: leaf abstracts so far
    leaf_fact_mapping,    \* _create_leaf_abstracts: leaf_id -> [fact indices]
    window_abstracts,     \* _slisum_leaf_abstract: abstracts of the windows so far
    summaries,            \* _create_branch_summaries: branch summaries so far
    branch_leaf_mapping,  \* _create_branch_summaries: branch_id -> [leaf indices]
    digest_tree,          \* <<>> or <<the DigestTree digest_facts returned>>
    calls,                \* chat_completion calls of the running digest, in order
    last_response,        \* what the latest chat_completion call returned
    documents,            \* RetrievalIndex.documents
    document_embeddings,  \* RetrievalIndex.document_embeddings
    doc_id_to_neo4j_id,   \* RetrievalIndex.doc_id_to_neo4j_id
    tree_structure,       \* RetrievalIndex.tree_structure: <<>> (None) or <<tree>>
    store,                \* the graph held by the Neo4j server
    uuid_counter,         \* number of uuid4 draws so far, one batch per add_documents
    add_status,           \* how the latest add_documents ended
    last_call,            \* the latest retrieve / classify call and what it returned
    call_count,           \* utils._call_count, the process-wide rate-limit counter
    active_indices        \* pipeline_API.active_indices: index_id -> index info

digestVars == <<pc, facts, abstracts, leaf_fact_mapping, window_abstracts,
                summaries, branch_leaf_mapping, digest_tree, calls, last_response>>

indexVars == <<documents, document_embeddings, doc_id_to_neo4j_id, tree_structure,
               store, uuid_counter, add_status, last_call>>

vars == <<digestVars, indexVars, call_count, active_indices>>

\* ------------------------------------------------------- python primitives
Min(a, b) == IF a <= b THEN a ELSE b

\* list(range(a, b))
Range(a, b) == [j \in 1..(IF b > a THEN b - a ELSE 0) |-> a + j - 1]

\* s[a:b] for 0 <= a, 0 <= b
Slice(s, a, b) == SubSeq(s, a + 1, Min(b, Len(s)))

IsSpace(c) == c = " "

RECURSIVE LStrip(_)
LStrip(s) == IF s # <<>> /\ IsSpace(Head(s)) THEN LStrip(Tail(s)) ELSE s

RECURSIVE RStrip(_)
RStrip(s) ==
    IF s # <<>> /\ IsSpace(s[Len(s)]) THEN RStrip(SubSeq(s, 1, Len(s) - 1)) ELSE s

\* str.strip()
Strip(s) == RStrip(LStrip(s))

\* ------------------------------------------------------------------- facts
UNKNOWN == <<"unknown">>

Fact(who, what, when, where) ==
    [who |-> who, what |-> what, when |-> when, where |-> where]

\* (who, what, when, where) of the facts the extraction stage hands over
FactPool ==
    << << <<"A", "l">>, <<"met">>, <<"mon">>, <<"G", "z">> >>,
       << <<"a", "l">>, <<"paid">>, UNKNOWN, <<"G", "z">> >>,
       << UNKNOWN, <<"left">>, <<"tue">>, <<"R", " ", "a">> >>,
       << <<"B", "o">>, <<"met">>, <<"wed">>, <<"Unknown">> >>,
       << <<"A", "l">>, <<"called">>, <<"thu">>, <<"R", " ", "a">> >>,
       << <<"G", "z">>, <<"left">>, <<"fri">>, <<"G", "z">> >> >>

\* a fact list of length n: the pool, cycled
InputFacts(n) ==
    [i \in 1..n |->
        LET row == FactPool[((i - 1) % Len(FactPool)) + 1] IN
        Fact(row[1], row[2], row[3], row[4])]

\* ------------------------------------------------------ generative service
\* message content the service can answer a summarizer prompt with
ServiceContents == { <<>>, <<" ">>, <<" ", "summary", " ">> }

\* utils.chat_completion on a successful request: the stripped content.
chat_completion(content) == Strip(content)

Call(op, lo, hi) == [op |-> op, lo |-> lo, hi |-> hi]

\* ------------------------------------------------------------- digest tree
DigestTree(f, l, b, r, lfm, blm) ==
    [facts |-> f, leafs |-> l, branches |-> b, root |-> r,
     leaf_fact_mapping |-> lfm, branch_leaf_mapping |-> blm]

NO_FACTS_ROOT == <<"No facts available for digestion.">>
INSUFFICIENT_ROOT == <<"Insufficient facts for hierarchical processing.">>

\* dict with key k set to v
DictSet(d, k, v) == [x \in (DOMAIN d) \cup {k} |-> IF x = k THEN v ELSE d[x]]

\* apply_rate_limit, on the call counter: a new minute or a full minute quota
\* (after the sleep) starts the count again; every call counts itself
apply_rate_limit(count, minute_elapsed) ==
    LET started == IF minute_elapsed THEN 0 ELSE count
        slept == IF started >= CALLS_PER_MINUTE THEN 0 ELSE started
    IN slept + 1

DigestInit ==
    /\ pc = "idle"
    /\ facts = <<>>
    /\ abstracts = <<>>
    /\ leaf_fact_mapping = <<>>
    /\ window_abstracts = <<>>
    /\ summaries = <<>>
    /\ branch_leaf_mapping = <<>>
    /\ digest_tree = <<>>
    /\ calls = <<>>
    /\ last_response = <<>>

\* digest_facts up to its first summarizer call
digest_facts(n) ==
    /\ pc = "idle"
    /\ digest_tree = <<>>
    /\ facts' = InputFacts(n)
    /\ abstracts' = <<>>
    /\ leaf_fact_mapping' = <<>>
    /\ window_abstracts' = <<>>
    /\ summaries' = <<>>
    /\ branch_leaf_mapping' = <<>>
    /\ calls' = <<>>
    /\ last_response' = <<>>
    /\ IF facts' = <<>>
       THEN /\ digest_tree' = << DigestTree(<<>>, <<>>, <<>>, NO_FACTS_ROOT, <<>>, <<>>) >>
            /\ pc' = "idle"
       ELSE /\ digest_tree' = <<>>
            /\ pc' = "leaf"
    /\ UNCHANGED <<indexVars, call_count, active_indices>>

\* digest_facts from the return of _create_leaf_abstracts on
AfterLeafAbstracts(leafs, lfm) ==
    IF Len(leafs) <= 1
    THEN /\ digest_tree' = << DigestTree(facts, leafs, <<>>,
                                IF leafs # <<>> THEN leafs[1] ELSE INSUFFICIENT_ROOT,
                                lfm, <<>>) >>
         /\ pc' = "idle"
    ELSE /\ digest_tree' = <<>>
         /\ pc' = "branch"

\* mutation: the branch level starts after the first leaf abstract
AppendAbstract_EarlyBranch(abstract, lfm) ==
    LET leafs == Append(abstracts, abstract) IN
    /\ abstracts' = leafs
    /\ leaf_fact_mapping' = lfm
    /\ window_abstracts' = <<>>
    /\ IF Len(leafs) * LEAF_SIZE < Len(facts)
       THEN pc' = "branch" /\ digest_tree' = <<>>
       ELSE AfterLeafAbstracts(leafs, lfm)
\* the end of one iteration of the loop of _create_leaf_abstracts
AppendAbstract(abstract, lfm) ==
    LET leafs == Append(abstracts, abstract) IN
    /\ abstracts' = leafs
    /\ leaf_fact_mapping' = lfm
    /\ window_abstracts' = <<>>
    /\ IF Len(leafs) * LEAF_SIZE < Len(facts)
       THEN pc' = "leaf" /\ digest_tree' = <<>>
       ELSE AfterLeafAbstracts(leafs, lfm)

\* loop variables of _create_leaf_abstracts at the current iteration
LeafLoopI == Len(abstracts) * LEAF_SIZE
LeafFacts == Slice(facts, LeafLoopI, LeafLoopI + LEAF_SIZE)
\* mutation: the chunk's end is not clipped to len(facts)
LeafMappingSet_Unclipped ==
    DictSet(leaf_fact_mapping, Len(abstracts), Range(LeafLoopI, LeafLoopI + LEAF_SIZE))
LeafMappingSet ==
    DictSet(leaf_fact_mapping, Len(abstracts),
            Range(LeafLoopI, Min(LeafLoopI + LEAF_SIZE, Len(facts))))

\* the chunk goes to simple_leaf_abstract in one call
UsesSimpleAbstract(leaf_facts) ==
    \/ ~(Len(leaf_facts) >= 3)
    \/ Len(leaf_facts) < SLISUM_MIN_FACTS

\* _slisum_leaf_abstract: window_size and overlap
WindowSize(leaf_facts) == Min(SLISUM_WINDOW, Len(leaf_facts))
\* mutation: the windows do not overlap
Overlap_None(leaf_facts) == WindowSize(leaf_facts)
Overlap(leaf_facts) == WindowSize(leaf_facts) \div 2

\* one iteration of _create_leaf_abstracts whose chunk is summarized directly
simple_leaf_abstract(content) ==
    /\ pc = "leaf"
    /\ UsesSimpleAbstract(LeafFacts)
    /\ LET abstract == chat_completion(content) IN
       /\ calls' = Append(calls, Call("leaf_abstract", LeafLoopI,
                                      LeafLoopI + Len(LeafFacts) - 1))
       /\ last_response' = abstract
       /\ AppendAbstract(abstract, LeafMappingSet)
    /\ UNCHANGED <<facts, summaries, branch_leaf_mapping, indexVars>>
    /\ call_count' = apply_rate_limit(call_count, FALSE)
    /\ UNCHANGED active_indices

\* one window of _slisum_leaf_abstract
slisum_window(content) ==
    /\ pc = "leaf"
    /\ ~UsesSimpleAbstract(LeafFacts)
    /\ LET window_size == WindowSize(LeafFacts)
           overlap == Overlap(LeafFacts)
           start == Len(window_abstracts) * overlap
           abstract == chat_completion(content)
           was == Append(window_abstracts, abstract)
       IN
       /\ start < Len(LeafFacts) - window_size + 1
       /\ calls' = Append(calls, Call("leaf_abstract", LeafLoopI + start,
                                      LeafLoopI + Min(start + window_size, Len(LeafFacts)) - 1))
       /\ last_response' = abstract
       /\ IF start + overlap < Len(LeafFacts) - window_size + 1
          THEN \* the range has another window
               /\ window_abstracts' = was
               /\ leaf_fact_mapping' = LeafMappingSet
               /\ UNCHANGED <<pc, abstracts, digest_tree>>
          ELSE IF Len(was) <= 1
          THEN AppendAbstract(was[1], LeafMappingSet)
          ELSE /\ window_abstracts' = was
               /\ leaf_fact_mapping' = LeafMappingSet
               /\ pc' = "consensus"
               /\ UNCHANGED <<abstracts, digest_tree>>
    /\ UNCHANGED <<facts, summaries, branch_leaf_mapping, indexVars>>
    /\ call_count' = apply_rate_limit(call_count, FALSE)
    /\ UNCHANGED active_indices

\* the consensus call of _slisum_leaf_abstract
slisum_consensus(content) ==
    /\ pc = "consensus"
    /\ LET consensus == chat_completion(content) IN
       /\ calls' = Append(calls, Call("slisum_consensus", 0, Len(window_abstracts) - 1))
       /\ last_response' = consensus
       /\ AppendAbstract(consensus, leaf_fact_mapping)
    /\ UNCHANGED <<facts, summaries, branch_leaf_mapping, indexVars>>
    /\ call_count' = apply_rate_limit(call_count, FALSE)
    /\ UNCHANGED active_indices

\* mutation: a single branch is not promoted, the root digest is always requested
AfterBranchSummaries_NoPromotion(branches, blm) ==
    /\ digest_tree' = <<>>
    /\ pc' = "root"
\* digest_facts from the return of _create_branch_summaries on
AfterBranchSummaries(branches, blm) ==
    IF Len(branches) <= 1
    THEN /\ digest_tree' = << DigestTree(facts, abstracts, branches,
                                IF branches # <<>> THEN branches[1] ELSE abstracts[1],
                                leaf_fact_mapping, blm) >>
         /\ pc' = "idle"
    ELSE /\ digest_tree' = <<>>
         /\ pc' = "root"

\* loop variables of _create_branch_summaries at the current iteration
BranchLoopI == Len(summaries) * BRANCH_SIZE
\* mutation: the branch is keyed by the loop offset instead of len(summaries)
BranchMappingSet_KeyedByOffset ==
    DictSet(branch_leaf_mapping, BranchLoopI,
            Range(BranchLoopI, Min(BranchLoopI + BRANCH_SIZE, Len(abstracts))))
BranchMappingSet ==
    DictSet(branch_leaf_mapping, Len(summaries),
            Range(BranchLoopI, Min(BranchLoopI + BRANCH_SIZE, Len(abstracts))))

\* one iteration of the loop of _create_branch_summaries
branch_summary(content) ==
    /\ pc = "branch"
    /\ LET i == BranchLoopI
           branch_abstracts == Slice(abstracts, i, i + BRANCH_SIZE)
           blm == BranchMappingSet
           summary == chat_completion(content)
           branches == Append(summaries, summary)
       IN
       /\ calls' = Append(calls, Call("branch_summary", i, i + Len(branch_abstracts) - 1))
       /\ last_response' = summary
       /\ summaries' = branches
       /\ branch_leaf_mapping' = blm
       /\ IF Len(branches) * BRANCH_SIZE < Len(abstracts)
          THEN UNCHANGED <<pc, digest_tree>>
          ELSE AfterBranchSummaries(branches, blm)
    /\ UNCHANGED <<facts, abstracts, leaf_fact_mapping, window_abstracts, indexVars>>
    /\ call_count' = apply_rate_limit(call_count, FALSE)
    /\ UNCHANGED active_indices

\* _create_root_digest and the final return of digest_facts
root_digest(content) ==
    /\ pc = "root"
    /\ LET digest == chat_completion(content) IN
       /\ calls' = Append(calls, Call("root_digest", 0, Len(summaries) - 1))
       /\ last_response' = digest
       /\ digest_tree' = << DigestTree(facts, abstracts, summaries, digest,
                                       leaf_fact_mapping, branch_leaf_mapping) >>
       /\ pc' = "idle"
    /\ UNCHANGED <<facts, abstracts, leaf_fact_mapping, window_abstracts,
                   summaries, branch_leaf_mapping, indexVars>>
    /\ call_count' = apply_rate_limit(call_count, FALSE)
    /\ UNCHANGED active_indices

\* the chat_completion call digest_facts is about to make
PendingCall ==
    CASE pc = "leaf" /\ UsesSimpleAbstract(LeafFacts) ->
            Call("leaf_abstract", LeafLoopI, LeafLoopI + Len(LeafFacts) - 1)
      [] pc = "leaf" /\ ~UsesSimpleAbstract(LeafFacts) ->
            LET start == Len(window_abstracts) * Overlap(LeafFacts) IN
            Call("leaf_abstract", LeafLoopI + start,
                 LeafLoopI + Min(start + WindowSize(LeafFacts), Len(LeafFacts)) - 1)
      [] pc = "consensus" -> Call("slisum_consensus", 0, Len(window_abstracts) - 1)
      [] pc = "branch" ->
            Call("branch_summary", BranchLoopI,
                 BranchLoopI + Len(Slice(abstracts, BranchLoopI, BranchLoopI + BRANCH_SIZE)) - 1)
      [] pc = "root" -> Call("root_digest", 0, Len(summaries) - 1)

\* mutation: the failure is caught and the levels built so far are returned
summarizer_raises_PartialTree ==
    /\ pc \in {"leaf", "consensus", "branch", "root"}
    /\ calls' = Append(calls, PendingCall)
    /\ pc' = "failed"
    /\ digest_tree' = << DigestTree(facts, abstracts, summaries, INSUFFICIENT_ROOT,
                                    leaf_fact_mapping, branch_leaf_mapping) >>
    /\ UNCHANGED <<facts, abstracts, leaf_fact_mapping, window_abstracts, summaries,
                   branch_leaf_mapping, last_response, indexVars>>
    /\ call_count' = apply_rate_limit(call_count, FALSE)
    /\ UNCHANGED active_indices
\* the pending chat_completion call raises (its own attempts are used up): no
\* frame of digest_layer catches, so digest_facts ends with that exception
summarizer_raises ==
    /\ pc \in {"leaf", "consensus", "branch", "root"}
    /\ calls' = Append(calls, PendingCall)
    /\ pc' = "failed"
    /\ UNCHANGED <<facts, abstracts, leaf_fact_mapping, window_abstracts, summaries,
                   branch_leaf_mapping, digest_tree, last_response, indexVars>>
    /\ call_count' = apply_rate_limit(call_count, FALSE)
    /\ UNCHANGED active_indices

DigestNext ==
    \/ summarizer_raises
    \/ \E n \in 0..MaxFacts : digest_facts(n)
    \/ \E content \in ServiceContents : simple_leaf_abstract(content)
    \/ \E content \in ServiceContents : slisum_window(content)
    \/ \E content \in ServiceContents : slisum_consensus(content)
    \/ \E content \in ServiceContents : branch_summary(content)
    \/ \E content \in ServiceContents : root_digest(content)


\* ------------------------------------------------------------ text helpers
\* str.lower() / str.upper() on the characters and word tokens in use
LowerOf ==
    [c \in {"A", "B", "G", "R", "Unknown", "Person", "Location"} |->
        CASE c = "A" -> "a" [] c = "B" -> "b" [] c = "G" -> "g" [] c = "R" -> "r"
          [] c = "Unknown" -> "unknown" [] c = "Person" -> "person"
          [] c = "Location" -> "location"]
Lower(s) == [i \in DOMAIN s |-> IF s[i] \in DOMAIN LowerOf THEN LowerOf[s[i]] ELSE s[i]]

\* str.replace(" ", "_")
ReplaceSpaces(s) == [i \in DOMAIN s |-> IF s[i] = " " THEN "_" ELSE s[i]]

\* utils.format_fact_for_retrieval (no fact carries a confidence: 0 -> "0.00")
format_fact_for_retrieval(fact) ==
    <<"Individual:", " ">> \o fact.who \o <<" ", "Action:", " ">> \o fact.what
        \o <<" ", "Time:", " ">> \o fact.when \o <<" ", "Location:", " ">> \o fact.where
        \o <<" ", "Confidence:", " ", "0.00">>

\* ------------------------------------------------- trees handed to the index
\* The tree digest_facts returns for n facts (C2_RootText and C9_ChunkMappings
\* fix its shape) when every summarizer call answers with a distinct text.
\* ----------------------------------------------------------- hybrid ranker
CONTEXT_CHARS == 200

\* an abstract longer than the context excerpt of _hierarchical_enhance_results
LongAbstract == [c \in 1..(CONTEXT_CHARS + 1) |-> IF c <= CONTEXT_CHARS THEN "w" ELSE "x"]

\* the leaf abstract the summarizer gave for chunk i: a short one, an empty
\* one (chat_completion hands back empty content as it is) or a long one
LeafAbstract(abstract, i) ==
    CASE abstract = "short" -> <<"leaf-abstract", ToString(i - 1)>>
      [] abstract = "empty" -> <<>>
      [] abstract = "long" -> LongAbstract

TreeOf(n, abstract) ==
    LET L == (n + LEAF_SIZE - 1) \div LEAF_SIZE
        B == (L + BRANCH_SIZE - 1) \div BRANCH_SIZE
        leafs == [i \in 1..L |-> LeafAbstract(abstract, i)]
        lfm == [l \in 0..(L - 1) |->
                   Range(l * LEAF_SIZE, Min((l + 1) * LEAF_SIZE, n))]
        branches == [j \in 1..B |-> <<"branch-summary", ToString(j - 1)>>]
        blm == [b \in 0..(B - 1) |->
                   Range(b * BRANCH_SIZE, Min((b + 1) * BRANCH_SIZE, L))]
    IN
    IF n = 0 THEN DigestTree(<<>>, <<>>, <<>>, NO_FACTS_ROOT, <<>>, <<>>)
    ELSE IF L <= 1 THEN DigestTree(InputFacts(n), leafs, <<>>, leafs[1], lfm, <<>>)
    ELSE IF B <= 1 THEN DigestTree(InputFacts(n), leafs, branches, branches[1], lfm, blm)
    ELSE DigestTree(InputFacts(n), leafs, branches, <<"root-digest">>, lfm, blm)

\* fact counts of the trees indexed: the small ones, one past a full leaf (two
\* leaves, one branch) and one past a full branch of full leaves (two branches)
IndexedFactCounts ==
    (0..MaxIndexedFacts) \cup {LEAF_SIZE + 1, LEAF_SIZE * BRANCH_SIZE + 1}

\* the trees indexed: each fact count with short abstracts, and the two-fact
\* tree with an empty and with a long leaf abstract
IndexedTrees ==
    { <<n, "short">> : n \in IndexedFactCounts } \cup { <<2, "empty">>, <<2, "long">> }

\* ------------------------------------------------------------- graph store
EmptyStore ==
    [documents |-> {}, entities |-> <<>>, summarized_by |-> {}, mentions |-> {},
     co_occurs |-> <<>>]

\* f"{level}_{i:04d}" and f"neo4j_{level}_{i:04d}_{uuid.uuid4().hex[:8]}"
DocId(level, i) == <<level, i>>
Neo4jId(level, i, uuid) == <<"neo4j", level, i, uuid>>

\* dict.get(k, default)
DictGet(d, k, default) == IF k \in DOMAIN d THEN d[k] ELSE default

\* the CREATE (d:Document {...}) statements of one _add_tree_level call
DocumentNodes(level, texts, mapping, uuid) ==
    { [id |-> Neo4jId(level, i - 1, uuid), doc_id |-> DocId(level, i - 1),
       text |-> texts[i], level |-> level,
       tree_position |-> DictGet(mapping, i - 1, <<>>), level_index |-> i - 1,
       confidence |-> IF level = "root" THEN "1.0" ELSE "0.8"] : i \in 1..Len(texts) }

\* the self.documents.append(...) of one _add_tree_level call
LevelDocuments(level, texts) ==
    [i \in 1..Len(texts) |-> [id |-> DocId(level, i - 1), text |-> texts[i]]]

\* the self.doc_id_to_neo4j_id[doc_id] = neo4j_id of one _add_tree_level call
LevelIds(level, texts, uuid) ==
    [d \in { DocId(level, i - 1) : i \in 1..Len(texts) } |-> Neo4jId(level, d[2], uuid)]

\* _create_entities_and_relationships: the (type, name) pairs of a fact
FactEntities(fact) ==
    (IF Lower(fact.who) # <<"unknown">> THEN << <<"Person", fact.who>> >> ELSE <<>>)
    \o (IF Lower(fact.where) # <<"unknown">> THEN << <<"Location", fact.where>> >> ELSE <<>>)

EntityId(entity_type, entity_name) ==
    Lower(ReplaceSpaces(<<entity_type, "_">> \o entity_name))

\* MERGE (e:Entity {id}) ON CREATE ... ON MATCH ..., then MERGE (d)-[:MENTIONS]->(e)
MergeEntity(st, entity, doc_neo4j_id) ==
    LET entity_id == EntityId(entity[1], entity[2]) IN
    [st EXCEPT
        !.entities =
            IF entity_id \in DOMAIN st.entities
            THEN [st.entities EXCEPT ![entity_id].mention_count = @ + 1]
            ELSE DictSet(st.entities, entity_id,
                         [name |-> entity[2], type |-> entity[1], mention_count |-> 1]),
        !.mentions =
            IF \E d \in st.documents : d.id = doc_neo4j_id
            THEN @ \cup {<<doc_neo4j_id, entity_id>>} ELSE @]

\* mutation: the edge is created without looking for an existing one
MergeCoOccurs_Create(st, e1, e2) ==
    [st EXCEPT !.co_occurs =
        Append(@, [e1 |-> e1, e2 |-> e2, co_occurrence_count |-> 1])]
\* MERGE (e1)-[r:CO_OCCURS]-(e2) ON CREATE count = 1 ON MATCH count + 1: the
\* pattern has no direction, so an edge either way between the two matches
MergeCoOccurs(st, e1, e2) ==
    LET matched == { x \in 1..Len(st.co_occurs) :
                        {st.co_occurs[x].e1, st.co_occurs[x].e2} = {e1, e2} }
    IN
    [st EXCEPT !.co_occurs =
        IF matched # {}
        THEN [x \in 1..Len(@) |->
                 IF x \in matched THEN [@[x] EXCEPT !.co_occurrence_count = @ + 1]
                 ELSE @[x]]
        ELSE Append(@, [e1 |-> e1, e2 |-> e2, co_occurrence_count |-> 1])]

\* _create_entities_and_relationships(session, fact, doc_neo4j_id)
CreateEntitiesAndRelationships(st, fact, doc_neo4j_id) ==
    LET entities == FactEntities(fact)
        st1 == IF Len(entities) >= 1 THEN MergeEntity(st, entities[1], doc_neo4j_id) ELSE st
        st2 == IF Len(entities) >= 2 THEN MergeEntity(st1, entities[2], doc_neo4j_id) ELSE st1
    IN
    IF Len(entities) >= 2
    THEN MergeCoOccurs(st2, EntityId(entities[1][1], entities[1][2]),
                       EntityId(entities[2][1], entities[2][2]))
    ELSE st2

\* the entity part of _add_tree_level(session, "fact", ...): facts lo..hi-1 in
\* order; the loop is split in halves, the first evaluated before the second.
\* No statement of the loop creates or deletes a Document node.
RECURSIVE AddFactEntities(_, _, _, _, _)
AddFactEntities(st, tree_facts, lo, hi, uuid) ==
    IF lo >= hi THEN st
    ELSE IF hi = lo + 1
    THEN CreateEntitiesAndRelationships(st, tree_facts[lo + 1], Neo4jId("fact", lo, uuid))
    ELSE LET mid == (lo + hi) \div 2
             first_half == AddFactEntities(st, tree_facts, lo, mid, uuid)
         IN
         IF first_half.documents = st.documents
         THEN AddFactEntities(first_half, tree_facts, mid, hi, uuid)
         ELSE first_half

\* MATCH (d:Document {level: ..., level_index: ...})
MatchDocuments(st, level, level_index) ==
    { d \in st.documents : d.level = level /\ d.level_index = level_index }

\* the (key, member) pairs of a mapping: for k, members in m.items(): for x in members
Pairs(m) == UNION { { <<k, m[k][j]>> : j \in 1..Len(m[k]) } : k \in DOMAIN m }

\* mutation: the edge is created from the parent to the child
MappingEdges_Reversed(st, child_level, parent_level, m) ==
    UNION { { <<parent.id, child.id>> :
                child \in MatchDocuments(st, child_level, pr[2]),
                parent \in MatchDocuments(st, parent_level, pr[1]) } : pr \in Pairs(m) }
\* MATCH (parent {level, level_index: pr[1]}) MATCH (child {level, level_index: pr[2]})
\* CREATE (child)-[:SUMMARIZED_BY]->(parent), for every pair of the mapping
MappingEdges(st, child_level, parent_level, m) ==
    UNION { { <<child.id, parent.id>> :
                child \in MatchDocuments(st, child_level, pr[2]),
                parent \in MatchDocuments(st, parent_level, pr[1]) } : pr \in Pairs(m) }

\* _create_hierarchy_relationships
CreateHierarchyRelationships(st, tree) ==
    [st EXCEPT !.summarized_by =
        @ \cup MappingEdges(st, "leaf", "branch", tree.branch_leaf_mapping)
          \cup MappingEdges(st, "fact", "leaf", tree.leaf_fact_mapping)
          \cup (IF tree.branches # <<>>
                THEN { <<branch.id, root.id>> :
                          branch \in { d \in st.documents : d.level = "branch" },
                          root \in { d \in st.documents : d.level = "root" } }
                ELSE {})]

\* mutation: the graph is not wiped before the tree is written
DetachDeleteAll_Keep(st) == st
\* session.run("MATCH (n) DETACH DELETE n")
DetachDeleteAll(st) == EmptyStore


\* the four _add_tree_level calls of add_documents: (level, texts, mapping)
TreeLevels(tree) ==
    << <<"root", <<tree.root>>, (0 :> <<>>)>>,
       <<"branch", tree.branches, tree.branch_leaf_mapping>>,
       <<"leaf", tree.leafs, tree.leaf_fact_mapping>>,
       <<"fact", [i \in 1..Len(tree.facts) |-> format_fact_for_retrieval(tree.facts[i])],
                 [i \in 0..(Len(tree.facts) - 1) |-> <<i>>]>> >>

\* the store after the body of add_documents ran on it
StoreAfterAdd(st, tree, uuid) ==
    LET lv == TreeLevels(tree)
        wiped == DetachDeleteAll(st)
        nodes == [wiped EXCEPT !.documents =
                    @ \cup UNION { DocumentNodes(lv[x][1], lv[x][2], lv[x][3], uuid) :
                                     x \in 1..4 }]
    IN
    CreateHierarchyRelationships(AddFactEntities(nodes, tree.facts, 0, Len(tree.facts), uuid), tree)

\* mutation: the embeddings of the earlier tree are kept
ResetEmbeddings_Kept == document_embeddings

\* self.document_embeddings = [] at the head of add_documents
ResetEmbeddings == <<>>

\* RetrievalIndex.add_documents(digest_tree) for the tree of n facts;
\* store_ok = FALSE: the server refuses the session
add_documents(n, abstract, store_ok) ==
    /\ last_call.op = "none"
    /\ uuid_counter < MaxAdds
    /\ LET tree == TreeOf(n, abstract)
           lv == TreeLevels(tree)
           uuid == uuid_counter + 1
       IN
       /\ tree_structure' = <<tree>>
       /\ document_embeddings' = ResetEmbeddings
       /\ IF store_ok
          THEN /\ documents' = LevelDocuments(lv[1][1], lv[1][2]) \o LevelDocuments(lv[2][1], lv[2][2])
                                 \o LevelDocuments(lv[3][1], lv[3][2]) \o LevelDocuments(lv[4][1], lv[4][2])
               /\ doc_id_to_neo4j_id' =
                      LevelIds(lv[1][1], lv[1][2], uuid) @@ LevelIds(lv[2][1], lv[2][2], uuid)
                         @@ LevelIds(lv[3][1], lv[3][2], uuid) @@ LevelIds(lv[4][1], lv[4][2], uuid)
               /\ store' = StoreAfterAdd(store, tree, uuid)
               /\ uuid_counter' = uuid
               /\ add_status' = "ok"
          ELSE /\ documents' = <<>>
               /\ doc_id_to_neo4j_id' = <<>>
               /\ add_status' = "failed"
               /\ UNCHANGED <<store, uuid_counter>>
    /\ UNCHANGED <<last_call, digestVars>>
    /\ UNCHANGED <<call_count, active_indices>>

\* add_documents(digest_tree) raising in the CREATE statement of its p-th
\* document (p counted from 1 over root, branches, leaves, facts): the
\* document is already in self.documents, its node is not in the store, the
\* statements before it are committed
add_documents_fails(n, abstract, p) ==
    /\ last_call.op = "none"
    /\ uuid_counter < MaxAdds
    /\ LET tree == TreeOf(n, abstract)
           lv == TreeLevels(tree)
           uuid == uuid_counter + 1
           all == LevelDocuments(lv[1][1], lv[1][2]) \o LevelDocuments(lv[2][1], lv[2][2])
                     \o LevelDocuments(lv[3][1], lv[3][2]) \o LevelDocuments(lv[4][1], lv[4][2])
           ids == LevelIds(lv[1][1], lv[1][2], uuid) @@ LevelIds(lv[2][1], lv[2][2], uuid)
                     @@ LevelIds(lv[3][1], lv[3][2], uuid) @@ LevelIds(lv[4][1], lv[4][2], uuid)
           created == { all[q].id : q \in 1..(p - 1) }
           nonfacts == Len(all) - Len(tree.facts)
           facts_done == IF p - 1 > nonfacts THEN p - 1 - nonfacts ELSE 0
           nodes == [DetachDeleteAll(store) EXCEPT !.documents =
                       { d \in UNION { DocumentNodes(lv[x][1], lv[x][2], lv[x][3], uuid) :
                                          x \in 1..4 } : d.doc_id \in created }]
       IN
       /\ p \in 1..Len(all)
       /\ tree_structure' = <<tree>>
       /\ document_embeddings' = ResetEmbeddings
       /\ documents' = SubSeq(all, 1, p)
       /\ doc_id_to_neo4j_id' = [d \in { all[q].id : q \in 1..p } |-> ids[d]]
       /\ store' = AddFactEntities(nodes, tree.facts, 0, facts_done, uuid)
       /\ uuid_counter' = uuid
       /\ add_status' = "failed"
    /\ UNCHANGED <<last_call, call_count, active_indices, digestVars>>

\* ---------------------------------------------------------- embedding layer
NotSpace(c) == ~IsSpace(c)

\* ColBERT.encode of one text: one vector per token, here the token itself
\* (one-hot), after the [CLS] and query/document marker tokens
Encode(text, is_query) ==
    <<"[CLS]", IF is_query THEN "[Q]" ELSE "[D]">> \o SelectSeq(text, NotSpace)

\* _safe_colbert_similarity: sum over query tokens of the best dot product
\* with a document token (1 for the same one-hot token, else 0)
SafeColbertSimilarity(query_embedding, doc_embedding) ==
    LET doc_tokens == { doc_embedding[j] : j \in 1..Len(doc_embedding) } IN
    Cardinality({ i \in 1..Len(query_embedding) : query_embedding[i] \in doc_tokens })

\* the record of one build_index call: the number of model.encode calls it
\* made and whether it raised
BuildCall(encode_calls, raised) ==
    [op |-> "build_index", encode_calls |-> encode_calls, raised |-> raised]

\* mutation: the corpus is encoded even when there is no document
build_index_EncodesEmpty(encode_ok) ==
    /\ last_call.op = "none"
    /\ IF ~encode_ok
       THEN /\ last_call' = BuildCall(1, TRUE)
            /\ UNCHANGED document_embeddings
       ELSE /\ last_call' = BuildCall(1, FALSE)
            /\ document_embeddings' =
                   [i \in 1..Len(documents) |-> Encode(documents[i].text, FALSE)]
    /\ UNCHANGED <<documents, doc_id_to_neo4j_id, tree_structure, store, uuid_counter,
                   add_status, digestVars>>
    /\ UNCHANGED <<call_count, active_indices>>
\* RetrievalIndex.build_index; encode_ok = FALSE: the embedding model raises
build_index(encode_ok) ==
    /\ last_call.op = "none"
    /\ IF documents = <<>>
       THEN /\ last_call' = BuildCall(0, FALSE)
            /\ UNCHANGED document_embeddings
       ELSE IF ~encode_ok
       THEN /\ last_call' = BuildCall(1, TRUE)
            /\ UNCHANGED document_embeddings
       ELSE /\ last_call' = BuildCall(1, FALSE)
            /\ document_embeddings' =
                   [i \in 1..Len(documents) |-> Encode(documents[i].text, FALSE)]
    /\ UNCHANGED <<documents, doc_id_to_neo4j_id, tree_structure, store, uuid_counter,
                   add_status, digestVars>>
    /\ UNCHANGED <<call_count, active_indices>>

\* ------------------------------------------------------------ query router
Raised == [raised |-> TRUE]
Returned(v) == [raised |-> FALSE, value |-> v]

UpperOf ==
    [c \in {"pattern", "Specific", "strategic", "mixed"} |->
        CASE c = "pattern" -> "PATTERN" [] c = "Specific" -> "SPECIFIC"
          [] c = "strategic" -> "STRATEGIC" [] c = "mixed" -> "MIXED"]
Upper(s) == [i \in DOMAIN s |-> IF s[i] \in DOMAIN UpperOf THEN UpperOf[s[i]] ELSE s[i]]

\* message content the service can answer a classification prompt with
ClassifierContents ==
    { <<"STRATEGIC">>, <<"strategic", " ">>, <<" ", "pattern">>, <<"PATTERN">>,
      <<"Specific">>, <<"SPECIFIC">>, <<"MIXED">>, <<"mixed">>, <<>>,
      <<"PATTERN", ".">>, <<"Specific", " ", "PATTERN">> }

\* what chat_completion hands back: the stripped content, or it raises
ClassifierOutcomes ==
    {Raised} \cup { Returned(chat_completion(c)) : c \in ClassifierContents }

\* mutation: the response is compared without upper-casing it
classify_query_level_NoUpper(outcome) ==
    IF outcome.raised THEN Raised
    ELSE LET classification == Strip(outcome.value) IN
         Returned(CASE classification = <<"STRATEGIC">> -> "STRATEGIC"
                    [] classification = <<"PATTERN">> -> "PATTERN"
                    [] classification = <<"SPECIFIC">> -> "SPECIFIC"
                    [] OTHER -> "MIXED")
\* classify_query_level, given the outcome of its chat_completion call
classify_query_level(outcome) ==
    IF outcome.raised THEN Raised
    ELSE LET classification == Upper(Strip(outcome.value)) IN
         Returned(CASE classification = <<"STRATEGIC">> -> "STRATEGIC"
                    [] classification = <<"PATTERN">> -> "PATTERN"
                    [] classification = <<"SPECIFIC">> -> "SPECIFIC"
                    [] OTHER -> "MIXED")

Queries == { <<"A", "l">>, <<"leaf-abstract", " ", "G", "z">>, <<"met", " ", "b">> }

SetMax(S) == CHOOSE x \in S : \A y \in S : y <= x
SetMin(S) == CHOOSE x \in S : \A y \in S : x <= y

\* list.sort(key=lambda x: x["score"], reverse=True) followed by [:m]: the sort
\* is stable, so the result is m times the first of the highest-scored rest
RECURSIVE TopByScore(_, _, _)
TopByScore(items, rest, m) ==
    IF m <= 0 \/ rest = {} THEN <<>>
    ELSE LET best == SetMax({ items[i].score : i \in rest })
             first == SetMin({ i \in rest : items[i].score = best })
         IN <<items[first]>> \o TopByScore(items, rest \ {first}, m - 1)

SortedTop(items, m) == TopByScore(items, DOMAIN items, m)

\* doc_id.split("_")[0]
DocLevel(doc_id) == doc_id[1]

\* the scores list of _colbert_retrieve(_by_levels) over the embeddings at idxs
ScoreRecords(query_embedding, idxs) ==
    [x \in 1..Len(idxs) |->
        LET i == idxs[x] IN
        [doc_index |-> i - 1,
         score |-> SafeColbertSimilarity(query_embedding, document_embeddings[i]),
         doc_id |-> documents[i].id, text |-> documents[i].text,
         level |-> DocLevel(documents[i].id)]]

\* indices (1-based, increasing) of the first n embeddings whose document's
\* level passes "if doc_level not in levels: continue"
FilterIndices(n, levels) ==
    LET InLevels(i) == DocLevel(documents[i].id) \in levels IN
    SelectSeq([i \in 1..n |-> i], InLevels)

AllLevels == {"root", "branch", "leaf", "fact"}

\* _colbert_retrieve_by_levels(query, levels, k); k_is_int = FALSE: scores[:k] raises
colbert_retrieve_by_levels(query, levels, k, k_is_int, encode_ok) ==
    IF document_embeddings = <<>> \/ documents = <<>> THEN Returned(<<>>)
    ELSE IF ~encode_ok THEN Raised
    ELSE IF Len(document_embeddings) > Len(documents) THEN Raised
    ELSE IF ~k_is_int THEN Raised
    ELSE Returned(SortedTop(
             ScoreRecords(Encode(query, TRUE),
                          FilterIndices(Len(document_embeddings), levels)), k))

\* _colbert_retrieve(query, k)
colbert_retrieve(query, k, k_is_int, encode_ok) ==
    IF document_embeddings = <<>> \/ documents = <<>> THEN Returned(<<>>)
    ELSE IF ~encode_ok THEN Raised
    ELSE IF Len(document_embeddings) > Len(documents) THEN Raised
    ELSE IF ~k_is_int THEN Raised
    ELSE Returned(SortedTop(
             ScoreRecords(Encode(query, TRUE),
                          [i \in 1..Len(document_embeddings) |-> i]), k))

\* query.lower().split(): the set of whitespace-separated terms
WordEnd(t) ==
    IF \E i \in 1..Len(t) : IsSpace(t[i])
    THEN SetMin({ i \in 1..Len(t) : IsSpace(t[i]) })
    ELSE Len(t) + 1

RECURSIVE Split(_)
Split(s) ==
    LET t == LStrip(s) IN
    IF t = <<>> THEN {}
    ELSE {SubSeq(t, 1, WordEnd(t) - 1)} \cup Split(SubSeq(t, WordEnd(t), Len(t)))

\* term in text
IsSubstring(term, text) ==
    \E i \in 0..(Len(text) - Len(term)) : SubSeq(text, i + 1, i + Len(term)) = term

\* level_boost, in tenths
LevelBoost(level) ==
    CASE level = "root" -> 13 [] level = "branch" -> 12 [] level = "leaf" -> 11
      [] OTHER -> 10

\* the row of context_query for the node with this id: <<>> when no node matches
Context(neo4j_id) ==
    LET ds == { d \in store.documents : d.id = neo4j_id } IN
    IF ds = {} THEN <<>>
    ELSE LET d == CHOOSE x \in ds : TRUE
             parents == { p \in store.documents : <<d.id, p.id>> \in store.summarized_by }
         IN
         << [level |-> d.level,
             parent_context |-> IF parents = {} THEN <<>>
                                ELSE <<(CHOOSE p \in parents : TRUE).text>>,
             entities |-> { store.entities[m[2]].name :
                               m \in { x \in store.mentions : x[1] = d.id } }] >>

\* mutation: the context prefix is added at every level
Enhance_PrefixAnyLevel(query, result) ==
    IF result.doc_id \in DOMAIN doc_id_to_neo4j_id
    THEN LET context == Context(doc_id_to_neo4j_id[result.doc_id]) IN
         IF context = <<>> THEN <<>>
         ELSE LET level == context[1].level
                  query_terms == Split(Lower(query))
                  entity_boost ==
                      Cardinality({ e \in context[1].entities :
                          \E term \in query_terms : IsSubstring(term, Lower(e)) })
                  parent == context[1].parent_context
              IN
              << [text |-> IF parent # <<>> /\ parent[1] # <<>>
                           THEN <<"CONTEXT:", " ">> \o Slice(parent[1], 0, CONTEXT_CHARS)
                                   \o <<"...", "\n", "\n">> \o result.text
                           ELSE result.text,
                  score |-> result.score * LevelBoost(level) + entity_boost] >>
    ELSE << [text |-> result.text, score |-> result.score * 10] >>
\* the dict appended to enhanced_results for one candidate, <<>> when it is dropped
Enhance(query, result) ==
    IF result.doc_id \in DOMAIN doc_id_to_neo4j_id
    THEN LET context == Context(doc_id_to_neo4j_id[result.doc_id]) IN
         IF context = <<>> THEN <<>>
         ELSE LET level == context[1].level
                  query_terms == Split(Lower(query))
                  entity_boost ==
                      Cardinality({ e \in context[1].entities :
                          \E term \in query_terms : IsSubstring(term, Lower(e)) })
                  parent == context[1].parent_context
              IN
              << [text |-> IF parent # <<>> /\ parent[1] # <<>> /\ level \in {"leaf", "fact"}
                           THEN <<"CONTEXT:", " ">> \o Slice(parent[1], 0, CONTEXT_CHARS)
                                   \o <<"...", "\n", "\n">> \o result.text
                           ELSE result.text,
                  score |-> result.score * LevelBoost(level) + entity_boost] >>
    ELSE << [text |-> result.text, score |-> result.score * 10] >>

RECURSIVE EnhanceAll(_, _, _)
EnhanceAll(query, colbert_results, i) ==
    IF i > Len(colbert_results) THEN <<>>
    ELSE Enhance(query, colbert_results[i]) \o EnhanceAll(query, colbert_results, i + 1)

Texts(results) == [i \in 1..Len(results) |-> results[i].text]

\* mutation: the enhanced candidates are not sorted by boosted score
hierarchical_enhance_results_Unsorted(query, colbert_results, k, store_ok) ==
    IF colbert_results = <<>> THEN <<>>
    ELSE IF ~store_ok THEN Texts(Slice(colbert_results, 0, k))
    ELSE Texts(Slice(EnhanceAll(query, colbert_results, 1), 0, k))
\* mutation: a failed enrichment hands back the raw documents in storage order
hierarchical_enhance_results_RawDocuments(query, colbert_results, k, store_ok) ==
    IF colbert_results = <<>> THEN <<>>
    ELSE IF ~store_ok THEN Texts(Slice(documents, 0, k))
    ELSE Texts(SortedTop(EnhanceAll(query, colbert_results, 1), k))
\* _hierarchical_enhance_results; store_ok = FALSE: the session or a query raises
hierarchical_enhance_results(query, colbert_results, k, store_ok) ==
    IF colbert_results = <<>> THEN <<>>
    ELSE IF ~store_ok THEN Texts(Slice(colbert_results, 0, k))
    ELSE Texts(SortedTop(EnhanceAll(query, colbert_results, 1), k))

\* mutation: every classification searches all levels
LevelsFor_Unrestricted(query_level) == AllLevels
\* the levels retrieve searches for a classification; MIXED searches all documents
LevelsFor(query_level) ==
    CASE query_level = "STRATEGIC" -> {"root", "branch"}
      [] query_level = "PATTERN" -> {"branch", "leaf"}
      [] query_level = "SPECIFIC" -> {"leaf", "fact"}
      [] OTHER -> AllLevels

\* the try block of retrieve, after classification: _query_levels / _query_all_levels
QueryByLevel(query, query_level, k, k_is_int, encode_ok, store_ok) ==
    LET colbert_results ==
            IF query_level \in {"STRATEGIC", "PATTERN", "SPECIFIC"}
            THEN colbert_retrieve_by_levels(query, LevelsFor(query_level),
                                            k * 2, k_is_int, encode_ok)
            ELSE colbert_retrieve(query, k * 3, k_is_int, encode_ok)
    IN
    IF colbert_results.raised THEN Raised
    ELSE Returned(hierarchical_enhance_results(query, colbert_results.value, k, store_ok))

\* mutation: the fallback slice is not guarded by its own try/except
Fallback_Unguarded(k, k_is_int) ==
    IF k_is_int THEN Returned(Texts(Slice(documents, 0, k))) ELSE Raised
\* the except block of retrieve: self.documents[:k], or [] when that raises
Fallback(k, k_is_int) ==
    IF k_is_int THEN Returned(Texts(Slice(documents, 0, k))) ELSE Returned(<<>>)

\* RetrievalIndex.retrieve(query, k) as a function of what its collaborators do
Retrieve(query, k, k_is_int, classifier_outcome, encode_ok, store_ok) ==
    LET query_level == classify_query_level(classifier_outcome) IN
    IF query_level.raised THEN Fallback(k, k_is_int)
    ELSE LET results == QueryByLevel(query, query_level.value, k, k_is_int,
                                     encode_ok, store_ok)
         IN IF results.raised THEN Fallback(k, k_is_int) ELSE results

NoCall == [op |-> "none"]

\* the classifier outcomes tried inside retrieve: one per resulting level, and a failure
RetrieveClassifierOutcomes ==
    { Raised, Returned(<<"STRATEGIC">>), Returned(<<"pattern">>),
      Returned(<<"Specific">>), Returned(<<"PATTERN", ".">>) }

retrieve(query, k, k_is_int, classifier_outcome, encode_ok, store_ok) ==
    /\ last_call.op = "none"
    /\ LET r == Retrieve(query, k, k_is_int, classifier_outcome, encode_ok, store_ok)
           query_level == classify_query_level(classifier_outcome)
       IN
       last_call' = [op |-> "retrieve", query |-> query, k |-> k, k_is_int |-> k_is_int,
                     query_level |-> IF query_level.raised THEN "raised"
                                     ELSE query_level.value,
                     encode_ok |-> encode_ok, store_ok |-> store_ok,
                     raised |-> r.raised,
                     texts |-> IF r.raised THEN <<>> ELSE r.value]
    /\ UNCHANGED <<documents, document_embeddings, doc_id_to_neo4j_id, tree_structure,
                   store, uuid_counter, add_status, digestVars>>
    /\ \E minute_elapsed \in BOOLEAN :
          /\ minute_elapsed \/ call_count < MaxCalls
          /\ call_count' = apply_rate_limit(call_count, minute_elapsed)
    /\ UNCHANGED active_indices

\* a call of classify_query_level(query) on its own
classify(query, content, service_ok) ==
    /\ last_call.op = "none"
    /\ LET outcome == IF service_ok THEN Returned(chat_completion(content)) ELSE Raised
           level == classify_query_level(outcome)
       IN
       last_call' = [op |-> "classify", query |-> query, content |-> content,
                     service_ok |-> service_ok, classifier_requests |-> 1,
                     raised |-> level.raised,
                     level |-> IF level.raised THEN "raised" ELSE level.value]
    /\ UNCHANGED <<documents, document_embeddings, doc_id_to_neo4j_id, tree_structure,
                   store, uuid_counter, add_status, digestVars>>
    /\ \E minute_elapsed \in BOOLEAN :
          /\ minute_elapsed \/ call_count < MaxCalls
          /\ call_count' = apply_rate_limit(call_count, minute_elapsed)
    /\ UNCHANGED active_indices

\* the caller takes the returned value (or the exception)
call_returns ==
    /\ last_call.op # "none"
    /\ last_call.op = "extract_from_chunk" => last_call.result # "running"
    /\ last_call' = NoCall
    /\ UNCHANGED <<documents, document_embeddings, doc_id_to_neo4j_id, tree_structure,
                   store, uuid_counter, add_status, digestVars>>
    /\ UNCHANGED <<call_count, active_indices>>

\* RetrievalIndex.__init__ against an empty graph
IndexInit ==
    /\ documents = <<>>
    /\ document_embeddings = <<>>
    /\ doc_id_to_neo4j_id = <<>>
    /\ tree_structure = <<>>
    /\ store = EmptyStore
    /\ uuid_counter = 0
    /\ add_status = "never"
    /\ last_call = NoCall

IndexNext ==
    \/ \E t \in IndexedTrees, store_ok \in BOOLEAN :
          add_documents(t[1], t[2], store_ok)
    \/ \E encode_ok \in BOOLEAN : build_index(encode_ok)
    \/ \E query \in Queries, k \in 0..MaxK, co \in RetrieveClassifierOutcomes,
          encode_ok \in BOOLEAN, store_ok \in BOOLEAN :
          retrieve(query, k, TRUE, co, encode_ok, store_ok)
    \/ \E query \in Queries, co \in RetrieveClassifierOutcomes,
          encode_ok \in BOOLEAN, store_ok \in BOOLEAN :
          retrieve(query, 1, FALSE, co, encode_ok, store_ok)
    \/ \E query \in Queries, content \in ClassifierContents, service_ok \in BOOLEAN :
          classify(query, content, service_ok)
    \/ call_returns


\* add_documents(digest_tree) of another RetrievalIndex object whose driver
\* points at the same graph (get_neo4j_config gives every index the same
\* uri): its statements run on the shared store, this index's fields stay
add_documents_other_index(n, abstract) ==
    /\ last_call.op = "none"
    /\ uuid_counter < MaxAdds
    /\ store' = StoreAfterAdd(store, TreeOf(n, abstract), uuid_counter + 1)
    /\ uuid_counter' = uuid_counter + 1
    /\ UNCHANGED <<documents, document_embeddings, doc_id_to_neo4j_id, tree_structure,
                   add_status, last_call, call_count, active_indices, digestVars>>

\* the statements add_documents can fail in: the CREATE of one of the first
\* documents of a tree
MaxCreated == 2 * MaxIndexedFacts

\* the trees of these calls: those of up to two leaves
BuildTrees == { t \in IndexedTrees : t[1] <= LEAF_SIZE + 1 }

BuildNext ==
    \/ \E t \in BuildTrees, store_ok \in BOOLEAN :
          add_documents(t[1], t[2], store_ok)
    \/ \E t \in BuildTrees, p \in 1..MaxCreated : add_documents_fails(t[1], t[2], p)
    \/ \E encode_ok \in BOOLEAN : build_index(encode_ok)
    \/ call_returns

SharedNext ==
    \/ \E t \in IndexedTrees, store_ok \in BOOLEAN :
          add_documents(t[1], t[2], store_ok)
    \/ \E encode_ok \in BOOLEAN : build_index(encode_ok)
    \/ \E t \in IndexedTrees : add_documents_other_index(t[1], t[2])
    \/ \E query \in Queries, k \in 0..MaxK, co \in RetrieveClassifierOutcomes,
          encode_ok \in BOOLEAN, store_ok \in BOOLEAN :
          retrieve(query, k, TRUE, co, encode_ok, store_ok)
    \/ call_returns

\* ------------------------------------------------- the service adapter
MAX_ATTEMPTS == 3

\* what one requests.post of chat_completion can end in: a response with
\* content, an HTTP error status (a 429 with no Retry-After header, with a
\* number of seconds, or with another value such as an HTTP date), or any
\* other exception (connection, timeout, a body without the content)
RequestOutcomes ==
    { [kind |-> "content", status_code |-> 200, retry_after |-> "none"],
      [kind |-> "http", status_code |-> 400, retry_after |-> "none"],
      [kind |-> "http", status_code |-> 404, retry_after |-> "none"],
      [kind |-> "http", status_code |-> 429, retry_after |-> "none"],
      [kind |-> "http", status_code |-> 429, retry_after |-> "seconds"],
      [kind |-> "http", status_code |-> 429, retry_after |-> "date"],
      [kind |-> "http", status_code |-> 500, retry_after |-> "none"],
      [kind |-> "http", status_code |-> 503, retry_after |-> "none"],
      [kind |-> "error", status_code |-> 0, retry_after |-> "none"] }

\* the end of one pass of `for attempt in range(3)` that did not return
AfterFailedAttempt(attempt, outcome) ==
    IF outcome.kind = "http"
    THEN IF outcome.status_code = 429
         THEN IF outcome.retry_after = "date" THEN "raised"   \* int(retry_after)
              ELSE IF attempt = 2 THEN "raised" ELSE "continue"
         ELSE IF outcome.status_code >= 500
         THEN IF attempt = 2 THEN "raised" ELSE "continue"
         ELSE "raised"
    ELSE IF attempt = 2 THEN "raised" ELSE "continue"

\* chat_completion up to its loop; api_key_set = FALSE: ValueError
chat_completion_called(api_key_set) ==
    /\ last_call.op = "none"
    /\ last_call' = [op |-> "chat_completion", attempts |-> <<>>,
                     result |-> IF api_key_set THEN "running" ELSE "raised",
                     value |-> <<>>]
    /\ UNCHANGED <<documents, document_embeddings, doc_id_to_neo4j_id, tree_structure,
                   store, uuid_counter, add_status, call_count, active_indices, digestVars>>

\* one pass of the loop of chat_completion
request_attempt(outcome, content) ==
    /\ last_call.op = "chat_completion"
    /\ last_call.result = "running"
    /\ LET attempt == Len(last_call.attempts)
           after == AfterFailedAttempt(attempt, outcome)
       IN
       /\ call_count' = apply_rate_limit(call_count, FALSE)
       /\ last_call' =
             [last_call EXCEPT
                 !.attempts = Append(@, outcome),
                 !.result = IF outcome.kind = "content" THEN "returned"
                            ELSE IF after = "raised" THEN "raised"
                            ELSE IF attempt + 1 < MAX_ATTEMPTS THEN "running"
                            ELSE "returned_none",
                 !.value = IF outcome.kind = "content" THEN chat_completion(content)
                           ELSE <<>>]
    /\ UNCHANGED <<documents, document_embeddings, doc_id_to_neo4j_id, tree_structure,
                   store, uuid_counter, add_status, active_indices, digestVars>>

\* the caller takes the result of a finished chat_completion call
chat_completion_ends ==
    /\ last_call.op = "chat_completion"
    /\ last_call.result # "running"
    /\ last_call' = NoCall
    /\ UNCHANGED <<documents, document_embeddings, doc_id_to_neo4j_id, tree_structure,
                   store, uuid_counter, add_status, call_count, active_indices, digestVars>>

ChatNext ==
    \/ \E api_key_set \in BOOLEAN : chat_completion_called(api_key_set)
    \/ \E outcome \in RequestOutcomes, content \in ServiceContents :
          request_attempt(outcome, content)
    \/ chat_completion_ends

\* ------------------------------------------------------- the fact extractor
\* a JSON value under a key of a raw fact: a string, null, or no such key
Str(value) == [type |-> "str", value |-> value]
Null == [type |-> "null", value |-> <<>>]
Missing == [type |-> "missing", value |-> <<>>]

RawValues ==
    { Missing, Null, Str(<<>>), Str(<<" ">>), Str(<<"unknown">>), Str(<<"UNKNOWN">>),
      Str(<<" ", "A", "l">>) }

\* the items of the list the service's JSON parses to: dicts, or something else
RawFacts ==
    [who : RawValues, what : RawValues, when : {Str(<<"mon">>), Str(<<"Unknown">>), Str(<<>>)},
     where : {Str(<<"G", "z">>), Str(<<"unknown">>), Str(<<>>)}]

NotADict == [who |-> Missing, what |-> Missing, when |-> Missing, where |-> Missing]

\* str(fact.get(key, "unknown")).strip() for a key the dict has
CleanField(raw) ==
    IF raw.type = "null" THEN <<"None">> ELSE Strip(raw.value)

\* _clean_individual_fact: <<>> for None, else <<the cleaned fact>>
clean_individual_fact(fact) ==
    LET cleaned == Fact(CleanField(fact.who), CleanField(fact.what),
                        CleanField(fact.when), CleanField(fact.where))
        unknowns == { <<"unknown">>, <<>>, <<"Unknown">>, <<"UNKNOWN">> }
    IN IF {cleaned.who, cleaned.what, cleaned.when, cleaned.where} \subseteq unknowns
       THEN <<>> ELSE <<cleaned>>

\* _validate_and_clean_facts: the cleaned facts of the dicts that have all
\* four keys, in order
validate_and_clean_facts(raw_facts) ==
    LET Kept(i) == IF \E key \in {"who", "what", "when", "where"} : raw_facts[i][key].type = "missing"
                   THEN <<>> ELSE clean_individual_fact(raw_facts[i])
        F[i \in 0..Len(raw_facts)] == IF i = 0 THEN <<>> ELSE F[i - 1] \o Kept(i)
    IN F[Len(raw_facts)]

\* _extract_from_chunk at the response whose JSON could be extracted: the
\* facts it returns, which extract_facts appends to its result
\* the lists the JSON of a response parses to
RawFactLists ==
    {<<>>} \cup { <<fact>> \o rest : fact \in RawFacts, rest \in {<<>>, <<NotADict>>} }

EXTRACT_ATTEMPTS == 4

\* what one chat_completion call of _extract_from_chunk ends in: it raises, it
\* returns an empty or a blank string, a text none of the JSON strategies can
\* parse, or a text _extract_json_with_fallbacks parses to a list
ChunkResponses ==
    { [kind |-> kind, parsed |-> <<>>] : kind \in {"raised", "empty", "blank", "text"} }
        \cup { [kind |-> "json", parsed |-> raw_facts] : raw_facts \in RawFactLists }

\* the messages a pass of the loop adds to the conversation before the next
RetryMessages(attempt, response) ==
    IF attempt >= EXTRACT_ATTEMPTS - 1 THEN <<>>
    ELSE CASE response.kind \in {"empty", "blank"} -> << "user:valid_json_please" >>
           [] response.kind = "text" -> << "assistant:response", "user:retry_message" >>
           [] response.kind = "raised" -> << "user:error_occurred" >>
           [] OTHER -> <<>>

\* how a pass of the loop that has no facts to return ends
AfterFailedPass_Propagates(attempt, response) ==
    IF response.kind = "raised" THEN "raised"
    ELSE IF attempt + 1 < EXTRACT_ATTEMPTS THEN "running" ELSE "returned"

AfterFailedPass(attempt, response) ==
    IF attempt + 1 < EXTRACT_ATTEMPTS THEN "running" ELSE "returned"

\* _extract_from_chunk up to its loop
extract_from_chunk_called ==
    /\ last_call.op = "none"
    /\ last_call' = [op |-> "extract_from_chunk", result |-> "running",
                     responses |-> <<>>, messages |-> << "user:prompt" >>,
                     facts |-> <<>>, valid_facts |-> <<>>]
    /\ UNCHANGED <<documents, document_embeddings, doc_id_to_neo4j_id, tree_structure,
                   store, uuid_counter, add_status, call_count, active_indices, digestVars>>

\* one pass of the loop of _extract_from_chunk
extract_from_chunk(response) ==
    /\ last_call.op = "extract_from_chunk"
    /\ last_call.result = "running"
    /\ LET attempt == Len(last_call.responses) IN
       last_call' =
         IF response.kind = "json"
         THEN [last_call EXCEPT !.result = "returned",
                                !.responses = Append(@, response),
                                !.facts = response.parsed,
                                !.valid_facts = validate_and_clean_facts(response.parsed)]
         ELSE [last_call EXCEPT !.result = AfterFailedPass(attempt, response),
                                !.responses = Append(@, response),
                                !.messages = @ \o RetryMessages(attempt, response)]
    /\ \E minute_elapsed \in BOOLEAN :
          /\ minute_elapsed \/ call_count < MaxCalls
          /\ call_count' = apply_rate_limit(call_count, minute_elapsed)
    /\ UNCHANGED <<documents, document_embeddings, doc_id_to_neo4j_id, tree_structure,
                   store, uuid_counter, add_status, active_indices, digestVars>>

ExtractNext ==
    \/ extract_from_chunk_called
    \/ \E response \in ChunkResponses : extract_from_chunk(response)
    \/ call_returns

\* ---------------------------------------------------------------- the API
\* index ids a create_index request names; the index ids of the requests all
\* address the one RetrievalIndex object the index variables describe
IndexIds == {"intel"}

\* the query_level field of a QueryRequest: None or an override
QueryLevelOverrides == {"none", "strategic", "pattern", "specific", "mixed"}

\* QueryLevel.value
QueryLevelValue(level) ==
    CASE level = "STRATEGIC" -> "strategic" [] level = "PATTERN" -> "pattern"
      [] level = "SPECIFIC" -> "specific" [] level = "MIXED" -> "mixed"

\* what the classifier does in one call of a query request: it fails, or it
\* answers with one of two levels
ApiClassifierOutcomes == { Raised, Returned(<<"STRATEGIC">>), Returned(<<"Specific">>) }

\* the number of facts extract_facts gives for the items of a request
ExtractedFactCounts == (0..MaxIndexedFacts) \cup {LEAF_SIZE + 1}

HttpError(op, index_id, status_code) ==
    [op |-> op, index_id |-> index_id, status_code |-> status_code]

\* min(active_indices.keys(), key=created_at)
OldestId ==
    CHOOSE x \in DOMAIN active_indices :
        \A y \in DOMAIN active_indices :
            active_indices[x].created_at <= active_indices[y].created_at

\* the record of one create_index request: the number of facts extract_facts
\* gave (0 when it was not reached) and the status of the answer
CreateCall(index_id, n, status_code) ==
    [op |-> "create_index", index_id |-> index_id, facts |-> n,
     status_code |-> status_code]

DictDel(d, k) == [x \in (DOMAIN d) \ {k} |-> d[x]]

\* POST /api/v1/indices; n: the facts extract_facts returns; digest_ok,
\* store_ok, encode_ok: whether digest_facts, add_documents, build_index
\* return; evict_ok: whether the cleanup of the evicted index succeeds
create_index(index_id, n, digest_ok, store_ok, encode_ok, evict_ok) ==
    /\ last_call.op = "none"
    /\ uuid_counter < MaxAdds
    /\ IF index_id \in DOMAIN active_indices
       THEN /\ last_call' = CreateCall(index_id, 0, 409)
            /\ UNCHANGED <<documents, document_embeddings, doc_id_to_neo4j_id,
                           tree_structure, store, uuid_counter, add_status, call_count,
                           active_indices>>
       ELSE LET evicted == IF Cardinality(DOMAIN active_indices) >= MAX_ACTIVE_INDICES
                                /\ evict_ok
                           THEN DictDel(active_indices, OldestId) ELSE active_indices
                tree == TreeOf(n, "short")
                lv == TreeLevels(tree)
                uuid == uuid_counter + 1
                docs == LevelDocuments(lv[1][1], lv[1][2]) \o LevelDocuments(lv[2][1], lv[2][2])
                          \o LevelDocuments(lv[3][1], lv[3][2]) \o LevelDocuments(lv[4][1], lv[4][2])
            IN
            /\ call_count' \in 0..MaxCalls
            /\ IF n = 0 \/ ~digest_ok
               THEN \* HTTPException(400) or the summarizer's error, raised inside
                    \* the try block: `except Exception` answers 500
                    /\ last_call' = CreateCall(index_id, n, 500)
                    /\ active_indices' = evicted
                    /\ UNCHANGED <<documents, document_embeddings, doc_id_to_neo4j_id,
                                   tree_structure, store, uuid_counter, add_status>>
               ELSE IF ~store_ok
               THEN /\ last_call' = CreateCall(index_id, n, 500)
                    /\ active_indices' = evicted
                    /\ documents' = <<>>
                    /\ document_embeddings' = <<>>
                    /\ doc_id_to_neo4j_id' = <<>>
                    /\ tree_structure' = <<tree>>
                    /\ add_status' = "failed"
                    /\ UNCHANGED <<store, uuid_counter>>
               ELSE /\ documents' = docs
                    /\ doc_id_to_neo4j_id' =
                           LevelIds(lv[1][1], lv[1][2], uuid) @@ LevelIds(lv[2][1], lv[2][2], uuid)
                              @@ LevelIds(lv[3][1], lv[3][2], uuid) @@ LevelIds(lv[4][1], lv[4][2], uuid)
                    /\ tree_structure' = <<tree>>
                    /\ store' = StoreAfterAdd(store, tree, uuid)
                    /\ uuid_counter' = uuid
                    /\ add_status' = "ok"
                    /\ IF ~encode_ok
                       THEN /\ last_call' = CreateCall(index_id, n, 500)
                            /\ active_indices' = evicted
                            /\ document_embeddings' = <<>>
                       ELSE /\ document_embeddings' =
                                   [i \in 1..Len(docs) |-> Encode(docs[i].text, FALSE)]
                            /\ active_indices' =
                                   DictSet(evicted, index_id,
                                           [facts_count |-> n, created_at |-> uuid])
                            /\ last_call' = CreateCall(index_id, n, 200)
    /\ UNCHANGED digestVars

\* POST /api/v1/query; first_outcome and second_outcome: what the classifier
\* does inside retrieve and in the handler's own classify_query_level call
query_index(index_id, query, k, query_level, first_outcome, second_outcome, encode_ok, store_ok) ==
    /\ last_call.op = "none"
    /\ IF index_id \notin DOMAIN active_indices
       THEN /\ last_call' = HttpError("query_index", index_id, 404)
            /\ UNCHANGED call_count
       ELSE LET r == Retrieve(query, k, TRUE, first_outcome, encode_ok, store_ok)
                routed == classify_query_level(first_outcome)
                reported == classify_query_level(second_outcome)
            IN
            /\ \E first_minute \in BOOLEAN, second_minute \in BOOLEAN :
                  LET first == apply_rate_limit(call_count, first_minute) IN
                  /\ first_minute \/ call_count < MaxCalls
                  /\ second_minute \/ first < MaxCalls
                  /\ call_count' = apply_rate_limit(first, second_minute)
            /\ last_call' =
                  IF r.raised \/ reported.raised
                  THEN HttpError("query_index", index_id, 500)
                  ELSE [op |-> "query_index", index_id |-> index_id, status_code |-> 200,
                        request |-> [query |-> query, k |-> k, query_level |-> query_level],
                        routed |-> IF routed.raised THEN "raised" ELSE routed.value,
                        encode_ok |-> encode_ok, store_ok |-> store_ok,
                        query_level |-> QueryLevelValue(reported.value),
                        documents |-> r.value]
    /\ UNCHANGED <<documents, document_embeddings, doc_id_to_neo4j_id, tree_structure,
                   store, uuid_counter, add_status, active_indices, digestVars>>

\* cleanup_index(index_id), from DELETE /api/v1/indices/{index_id} or from the
\* expiry task; cleanup_ok = FALSE: closing or removing the cache raises
cleanup_index(index_id, cleanup_ok) ==
    /\ last_call.op = "none"
    /\ index_id \in DOMAIN active_indices
    /\ active_indices' = IF cleanup_ok THEN DictDel(active_indices, index_id)
                         ELSE active_indices
    /\ last_call' = [op |-> "cleanup_index", index_id |-> index_id]
    /\ UNCHANGED <<documents, document_embeddings, doc_id_to_neo4j_id, tree_structure,
                   store, uuid_counter, add_status, call_count, digestVars>>

ApiNext ==
    \/ \E index_id \in IndexIds, n \in ExtractedFactCounts, digest_ok \in BOOLEAN,
          store_ok \in BOOLEAN, encode_ok \in BOOLEAN, evict_ok \in BOOLEAN :
          create_index(index_id, n, digest_ok, store_ok, encode_ok, evict_ok)
    \/ \E index_id \in IndexIds, query \in Queries, k \in 1..MaxK,
          query_level \in QueryLevelOverrides,
          first_outcome \in ApiClassifierOutcomes,
          second_outcome \in ApiClassifierOutcomes,
          encode_ok \in BOOLEAN, store_ok \in BOOLEAN :
          query_index(index_id, query, k, query_level, first_outcome, second_outcome,
                      encode_ok, store_ok)
    \/ \E index_id \in IndexIds, cleanup_ok \in BOOLEAN : cleanup_index(index_id, cleanup_ok)
    \/ call_returns

Init == DigestInit /\ IndexInit /\ call_count = 0 /\ active_indices = <<>>

\* the ids of indices created by earlier requests
PriorIds == { ToString(j) : j \in 1..MAX_ACTIVE_INDICES }

\* the service with MAX_ACTIVE_INDICES indices created one after the other by
\* earlier requests, the next request still to come; the RetrievalIndex objects
\* of these entries are not the one the index variables describe
FullInit ==
    /\ DigestInit /\ IndexInit /\ call_count = 0
    /\ active_indices =
          [id \in PriorIds |->
              [facts_count |-> 1,
               created_at |-> (CHOOSE j \in 1..MAX_ACTIVE_INDICES : ToString(j) = id)
                                 - MAX_ACTIVE_INDICES]]

\* the digest stage on its own
Next == DigestNext

Spec == Init /\ [][Next]_vars

\* an index on its own, driven by its callers
SpecIndex == Init /\ [][IndexNext]_vars

\* the API at capacity
SpecFull == FullInit /\ [][ApiNext]_vars

\* the calls that write the index, failures part-way included
SpecBuild == Init /\ [][BuildNext]_vars

\* an index next to another index on the same graph store
SpecShared == Init /\ [][SharedNext]_vars

\* chat_completion on its own
SpecChat == Init /\ [][ChatNext]_vars

\* the fact extractor's validation on its own
SpecExtract == Init /\ [][ExtractNext]_vars

\* the API process and its one index
SpecApi == Init /\ [][ApiNext]_vars

\* ------------------------------------------------------------------ claims
TreeReturned == digest_tree # <<>>
Tree == digest_tree[1]

CeilDiv(a, b) == (a + b - 1) \div b

RECURSIVE SumLens(_, _)
SumLens(m, k) == IF k = 0 THEN 0 ELSE Len(m[k - 1]) + SumLens(m, k - 1)

Elems(m) == UNION { { m[l][j] : j \in 1..Len(m[l]) } : l \in DOMAIN m }

\* every index 0..n-1 occurs in exactly one entry of the mapping m, once
ExactlyOnce(m, n) ==
    /\ Elems(m) = 0..(n - 1)
    /\ SumLens(m, Cardinality(DOMAIN m)) = n

\* C1 (as stated): for every non-empty fact list the returned tree has every
\* fact index in exactly one leaf_fact_mapping entry and every leaf index in
\* exactly one branch_leaf_mapping entry, single-leaf trees included.
C1_PartitionAllInputs ==
    (TreeReturned /\ facts # <<>>) =>
        /\ DOMAIN Tree.leaf_fact_mapping = 0..(Len(Tree.leafs) - 1)
        /\ ExactlyOnce(Tree.leaf_fact_mapping, Len(Tree.facts))
        /\ DOMAIN Tree.branch_leaf_mapping = 0..(Len(Tree.branches) - 1)
        /\ ExactlyOnce(Tree.branch_leaf_mapping, Len(Tree.leafs))

\* C1 (amended): for every non-empty fact list every fact index is in exactly
\* one leaf_fact_mapping entry; every leaf index is in exactly one
\* branch_leaf_mapping entry when the tree has more than one leaf, and with a
\* single leaf branch_leaf_mapping is empty (the leaf is in no entry).
C1_Partition ==
    (TreeReturned /\ facts # <<>>) =>
        /\ DOMAIN Tree.leaf_fact_mapping = 0..(Len(Tree.leafs) - 1)
        /\ ExactlyOnce(Tree.leaf_fact_mapping, Len(Tree.facts))
        /\ DOMAIN Tree.branch_leaf_mapping = 0..(Len(Tree.branches) - 1)
        /\ IF Len(Tree.leafs) > 1
           THEN ExactlyOnce(Tree.branch_leaf_mapping, Len(Tree.leafs))
           ELSE Elems(Tree.branch_leaf_mapping) = {}

C1_Witness ==
    /\ TreeReturned
    /\ Len(Tree.leafs) > BRANCH_SIZE
    /\ Len(Tree.facts) % LEAF_SIZE # 0

RootDigestCalls == { c \in 1..Len(calls) : calls[c].op = "root_digest" }

\* C2: the root of the returned tree: no facts -> empty tree, sentinel root, no
\* summarizer call; one leaf (1..LEAF_SIZE facts) -> no branches, no branch
\* mapping, root = leafs[0]; one branch (2..BRANCH_SIZE leaves) -> root =
\* branches[0] and no root-digest call; otherwise root is what the single
\* root-digest call over all branches, in order, returned.
C2_RootText ==
    TreeReturned =>
        LET n == Len(facts)
            L == Len(Tree.leafs)
        IN
        /\ Tree.facts = facts
        /\ n = 0 =>
              /\ Tree = DigestTree(<<>>, <<>>, <<>>, NO_FACTS_ROOT, <<>>, <<>>)
              /\ calls = <<>>
        /\ n \in 1..LEAF_SIZE =>
              /\ L = 1
              /\ Tree.branches = <<>>
              /\ DOMAIN Tree.branch_leaf_mapping = {}
              /\ Tree.root = Tree.leafs[1]
              /\ RootDigestCalls = {}
        /\ (n > LEAF_SIZE /\ L \in 2..BRANCH_SIZE) =>
              /\ Len(Tree.branches) = 1
              /\ Tree.root = Tree.branches[1]
              /\ RootDigestCalls = {}
        /\ L > BRANCH_SIZE =>
              /\ Len(Tree.branches) > 1
              /\ RootDigestCalls = {Len(calls)}
              /\ calls[Len(calls)] = Call("root_digest", 0, Len(Tree.branches) - 1)
              /\ Tree.branches = summaries
              /\ Tree.root = last_response
        /\ n > LEAF_SIZE => L >= 2

C2_Witness ==
    /\ TreeReturned
    /\ Len(Tree.branches) > 1
    /\ Tree.root # <<>>
    /\ Tree.branches[1] = <<>>

\* C11: when a summarizer call of digest_facts raises, digest_facts ends with
\* that failure: the failing call is the last call made (not re-issued, no
\* call for a later chunk or level follows, nothing is built further) and no
\* DigestTree, partial or whole, is returned.
C11_FailurePropagates ==
    [][ /\ pc # "failed"
        /\ pc' = "failed" =>
              /\ digest_tree' = <<>>
              /\ calls' = Append(calls, PendingCall)
              /\ <<abstracts', summaries'>> = <<abstracts, summaries>> ]_vars

C11_Witness ==
    /\ pc = "failed"
    /\ digest_tree = <<>>
    /\ Len(abstracts) = BRANCH_SIZE
    /\ summaries = <<>>
    /\ calls[Len(calls)].op = "branch_summary"

\* ---------------------------------------------------- claims on the index
RetrieveCall == last_call.op = "retrieve"
Classified == last_call.query_level # "raised"

\* the call reaches the query encoder: there are embeddings to score
VectorSearchRuns == document_embeddings # <<>> /\ documents # <<>>

\* vector search raises: the encoder fails, or the slice by a non-integer k
VectorSearchFails ==
    Classified /\ VectorSearchRuns /\ (~last_call.encode_ok \/ ~last_call.k_is_int)

\* the first k raw document texts in storage order
RawDocuments(k) == [p \in 1..Min(k, Len(documents)) |-> documents[p].text]

\* the level sets of the query router, as the specification lists them
AllowedLevels(query_level) ==
    CASE query_level = "STRATEGIC" -> {"root", "branch"}
      [] query_level = "PATTERN" -> {"branch", "leaf"}
      [] query_level = "SPECIFIC" -> {"leaf", "fact"}
      [] query_level = "MIXED" -> {"root", "branch", "leaf", "fact"}

\* documents (1-based positions) the classification of the call lets through
SearchedDocuments ==
    { i \in 1..Len(documents) :
          DocLevel(documents[i].id) \in AllowedLevels(last_call.query_level) }

\* C3: for every query, every integer k >= 0 and every state of the index and
\* of its collaborators, retrieve returns (never raises) at most k texts, and
\* returns the empty list when there are no embeddings and classification
\* succeeded.
C3_RetrieveBounded ==
    RetrieveCall =>
        /\ ~last_call.raised
        /\ last_call.k_is_int => Len(last_call.texts) <= last_call.k
        /\ (document_embeddings = <<>> /\ Classified) => last_call.texts = <<>>

C3_Witness ==
    /\ RetrieveCall
    /\ last_call.k_is_int /\ last_call.k = 2
    /\ ~last_call.store_ok
    /\ Len(documents) > 2
    /\ VectorSearchRuns
    /\ Len(last_call.texts) = 2

\* graph-context enrichment is attempted (there is a candidate) and fails
EnrichmentFails ==
    /\ Classified /\ VectorSearchRuns
    /\ last_call.encode_ok /\ last_call.k_is_int /\ ~last_call.store_ok
    /\ last_call.k >= 1
    /\ SearchedDocuments # {}

VectorScore(i) ==
    SafeColbertSimilarity(Encode(last_call.query, TRUE), document_embeddings[i])

\* number of searched documents ranked before document i by vector score,
\* equal scores in storage order
VectorRank(i) ==
    Cardinality({ j \in SearchedDocuments :
                     \/ VectorScore(j) > VectorScore(i)
                     \/ VectorScore(j) = VectorScore(i) /\ j < i })

\* the texts of the first k searched documents in vector-score order
VectorOrdered(texts, k) ==
    /\ Len(texts) = Min(k, Cardinality(SearchedDocuments))
    /\ \A p \in 1..Len(texts) :
          \E i \in SearchedDocuments :
              VectorRank(i) = p - 1 /\ texts[p] = documents[i].text

\* C4 (as stated): when vector search or graph-context enrichment fails,
\* retrieve(query, k) returns the first k raw document texts in storage order;
\* when that fallback fails too it returns the empty list; it never raises.
C4_FallbackRawDocuments ==
    RetrieveCall =>
        /\ ~last_call.raised
        /\ ((VectorSearchFails \/ EnrichmentFails) /\ last_call.k_is_int) =>
              last_call.texts = RawDocuments(last_call.k)
        /\ (VectorSearchFails /\ ~last_call.k_is_int) => last_call.texts = <<>>

\* C4 (amended): when vector search fails, retrieve(query, k) returns the first
\* k raw document texts in storage order; when graph-context enrichment fails
\* it returns the raw texts of the first k vector-search candidates, in
\* vector-score order and restricted to the searched levels; when the raw
\* document fallback fails too it returns the empty list; it never raises.
C4_FallbackChain ==
    RetrieveCall =>
        /\ ~last_call.raised
        /\ (VectorSearchFails /\ last_call.k_is_int) =>
              last_call.texts = RawDocuments(last_call.k)
        /\ EnrichmentFails => VectorOrdered(last_call.texts, last_call.k)
        /\ (VectorSearchFails /\ ~last_call.k_is_int) => last_call.texts = <<>>

C4_Witness ==
    /\ RetrieveCall
    /\ EnrichmentFails
    /\ last_call.query_level = "SPECIFIC"
    /\ Len(last_call.texts) = 2
    /\ last_call.texts # RawDocuments(2)

\* text is raw, or raw behind the "CONTEXT: <parent excerpt>...\n\n" prefix
IsContextOf(text, raw) ==
    /\ Len(text) >= Len(raw) + 5
    /\ text[1] = "CONTEXT:"
    /\ text[Len(text) - Len(raw)] = "\n"
    /\ SubSeq(text, Len(text) - Len(raw) + 1, Len(text)) = raw

\* text is the text of a document of one of the levels
OriginatesFrom(text, levels) ==
    \E i \in 1..Len(documents) :
        /\ DocLevel(documents[i].id) \in levels
        /\ \/ text = documents[i].text
           \/ /\ DocLevel(documents[i].id) \in {"leaf", "fact"}
              /\ IsContextOf(text, documents[i].text)

\* vector search and enrichment both complete
SearchCompletes ==
    /\ Classified /\ VectorSearchRuns
    /\ last_call.encode_ok /\ last_call.k_is_int /\ last_call.store_ok

\* C5 (as stated): in every retrieve call classified STRATEGIC, PATTERN or
\* SPECIFIC every returned text originates from a document of {root, branch},
\* {branch, leaf} or {leaf, fact}; a MIXED call searches all four levels.
C5_LevelRestrictionAlways ==
    RetrieveCall =>
        /\ last_call.query_level \in {"STRATEGIC", "PATTERN", "SPECIFIC"} =>
              \A p \in 1..Len(last_call.texts) :
                  OriginatesFrom(last_call.texts[p], AllowedLevels(last_call.query_level))
        /\ SearchCompletes =>
              Len(last_call.texts) = Min(last_call.k, Cardinality(SearchedDocuments))

\* C5 (amended): in a retrieve call classified STRATEGIC, PATTERN or SPECIFIC
\* whose vector search does not fail, every returned text originates from a
\* document of {root, branch}, {branch, leaf} or {leaf, fact}; when the vector
\* search fails the first k raw documents are returned whatever their level.
\* When search and enrichment complete, the k best of the documents of those
\* levels, or of all documents for MIXED, are returned.
C5_LevelRestriction ==
    RetrieveCall =>
        /\ (last_call.query_level \in {"STRATEGIC", "PATTERN", "SPECIFIC"}
               /\ ~VectorSearchFails) =>
              \A p \in 1..Len(last_call.texts) :
                  OriginatesFrom(last_call.texts[p], AllowedLevels(last_call.query_level))
        /\ (VectorSearchFails /\ last_call.k_is_int) =>
              last_call.texts = RawDocuments(last_call.k)
        /\ SearchCompletes =>
              Len(last_call.texts) = Min(last_call.k, Cardinality(SearchedDocuments))

C5_Witness ==
    /\ RetrieveCall
    /\ last_call.query_level = "PATTERN"
    /\ SearchCompletes
    /\ Len(documents) > 100
    /\ Len(last_call.texts) = 2
    /\ \E p \in 1..2 : OriginatesFrom(last_call.texts[p], {"leaf"})

\* the vector-search candidates: the first 2k (level-restricted) or 3k (MIXED)
\* searched documents by vector score
Candidates ==
    LET m == IF last_call.query_level = "MIXED" THEN 3 * last_call.k
             ELSE 2 * last_call.k
    IN { i \in SearchedDocuments : VectorRank(i) < m }

\* the stored node of document i
NodeOf(i) ==
    CHOOSE d \in store.documents : d.id = doc_id_to_neo4j_id[documents[i].id]

\* the entities document i mentions
MentionedBy(i) == { m[2] : m \in { x \in store.mentions : x[1] = NodeOf(i).id } }

QueryTerms == Split(Lower(last_call.query))
NameMatches(name) == \E term \in QueryTerms : IsSubstring(term, Lower(name))

\* levelBoost in tenths
BoostTenths(level) ==
    CASE level = "root" -> 13 [] level = "branch" -> 12 [] level = "leaf" -> 11
      [] level = "fact" -> 10

\* boosted score in tenths, 0.1 per matching mentioned entity
BoostedPerEntity(i) ==
    VectorScore(i) * BoostTenths(NodeOf(i).level)
        + Cardinality({ e \in MentionedBy(i) : NameMatches(store.entities[e].name) })

\* boosted score in tenths, 0.1 per matching distinct name of a mentioned entity
BoostedPerName(i) ==
    VectorScore(i) * BoostTenths(NodeOf(i).level)
        + Cardinality({ name \in { store.entities[e].name : e \in MentionedBy(i) } :
                           NameMatches(name) })

\* texts are those of the k candidates of highest score, in descending order
\* of score (equal scores in any order)
TopByBoost(texts, k, Score(_)) ==
    /\ Len(texts) = Min(k, Cardinality(Candidates))
    /\ \A p \in 1..Len(texts) :
          \E i \in Candidates :
              /\ \/ texts[p] = documents[i].text
                 \/ IsContextOf(texts[p], documents[i].text)
              /\ Cardinality({ j \in Candidates : Score(j) > Score(i) }) <= p - 1
              /\ p <= Cardinality({ j \in Candidates : Score(j) >= Score(i) })

\* C12 (as stated): when no step fails, retrieve returns the texts of the k
\* candidates of highest boosted score in descending order, the candidates
\* being the top 2k (level-restricted) or 3k (MIXED) documents by vector score
\* and boosted score = vectorScore * levelBoost (1.3, 1.2, 1.1, 1.0) + 0.1 per
\* mentioned entity whose lower-cased name contains a lower-cased query term.
C12_BoostPerEntity ==
    (RetrieveCall /\ SearchCompletes) =>
        TopByBoost(last_call.texts, last_call.k, BoostedPerEntity)

\* C12 (amended): as above, with entityBoost = 0.1 per distinct name among the
\* mentioned entities that contains a query term: two mentioned entities of
\* the same name (a person and a location called alike) count once.
C12_BoostedRanking ==
    (RetrieveCall /\ SearchCompletes) =>
        TopByBoost(last_call.texts, last_call.k, BoostedPerName)

C12_Witness ==
    /\ RetrieveCall /\ SearchCompletes
    /\ last_call.k = 1
    /\ Len(last_call.texts) = 1
    /\ \E i, j \in Candidates :
          /\ i < j
          /\ VectorScore(i) = VectorScore(j)
          /\ BoostedPerName(j) > BoostedPerName(i)
          /\ IsContextOf(last_call.texts[1], documents[j].text)
          /\ ~IsContextOf(last_call.texts[1], documents[i].text)

\* the nodes the SUMMARIZED_BY edges of node d lead to
Parents(d) == { p \in store.documents : <<d.id, p.id>> \in store.summarized_by }

\* candidate i may stand at position p of the boosted ranking
RankedAt(p, i) ==
    /\ Cardinality({ j \in Candidates : BoostedPerName(j) > BoostedPerName(i) }) <= p - 1
    /\ p <= Cardinality({ j \in Candidates : BoostedPerName(j) >= BoostedPerName(i) })

\* the stored text with the context label and the excerpt of the parent's text
Prefixed(parent_text, text) ==
    <<"CONTEXT:", " ">> \o SubSeq(parent_text, 1, Min(CONTEXT_CHARS, Len(parent_text)))
        \o <<"...", "\n", "\n">> \o text

ParentTexts(i) == { p.text : p \in Parents(NodeOf(i)) }

C13_EmptyParent ==
    /\ RetrieveCall /\ SearchCompletes
    /\ \E i \in Candidates :
          /\ NodeOf(i).level = "fact" /\ ParentTexts(i) = {<<>>}
          /\ RankedAt(1, i)
          /\ last_call.texts # <<>> /\ last_call.texts[1] = documents[i].text

ClassifyCall == last_call.op = "classify"
QueryLevels == {"STRATEGIC", "PATTERN", "SPECIFIC", "MIXED"}

\* C6: for every text the classifier answers with, classify_query_level returns
\* STRATEGIC, PATTERN or SPECIFIC exactly when the stripped, upper-cased answer
\* is that label and MIXED for every other answer, so always one of the four
\* levels; every call asks the classifier once and its result is a function of
\* that answer alone, whatever the query and the calls before it.
C6_Classification ==
    (ClassifyCall /\ last_call.service_ok) =>
        LET label == Upper(Strip(last_call.content)) IN
        /\ ~last_call.raised
        /\ last_call.level \in QueryLevels
        /\ \A l \in {"STRATEGIC", "PATTERN", "SPECIFIC"} :
              last_call.level = l <=> label = <<l>>
        /\ label \notin { <<l>> : l \in {"STRATEGIC", "PATTERN", "SPECIFIC"} } =>
              last_call.level = "MIXED"
        /\ last_call.content = <<" ", "pattern">> => last_call.level = "PATTERN"
        /\ last_call.content = <<"PATTERN", ".">> => last_call.level = "MIXED"
        /\ last_call.classifier_requests = 1

C6_Witness ==
    /\ ClassifyCall
    /\ last_call.service_ok
    /\ last_call.content = <<"strategic", " ">>
    /\ last_call.level = "STRATEGIC"

\* the tree the latest add_documents call was given
IndexedTree == tree_structure[1]
Added == add_status = "ok"

StoredNodes(level) == { d \in store.documents : d.level = level }
StoredNode(level, i) == { d \in store.documents : d.level = level /\ d.level_index = i }

\* the keys of the mapping whose entry contains x
KeysOf(m, x) == { k \in DOMAIN m : \E j \in 1..Len(m[k]) : m[k][j] = x }

FactAndBranchEdges ==
    /\ \A d \in StoredNodes("fact") :
          /\ Cardinality(Parents(d)) = 1
          /\ \E l \in KeysOf(IndexedTree.leaf_fact_mapping, d.level_index) :
                Parents(d) = StoredNode("leaf", l)
    /\ Cardinality(StoredNodes("root")) = 1
    /\ \A d \in StoredNodes("branch") : Parents(d) = StoredNodes("root")
    /\ \A d \in StoredNodes("root") : Parents(d) = {}

LeafEdges(d) ==
    /\ Cardinality(Parents(d)) = 1
    /\ \E b \in KeysOf(IndexedTree.branch_leaf_mapping, d.level_index) :
          Parents(d) = StoredNode("branch", b)

\* C7 (as stated): after add_documents(tree) the SUMMARIZED_BY edge of a fact
\* node leads to exactly one node, the leaf whose leaf_fact_mapping entry
\* contains the fact; that of a leaf node to exactly one node, the branch whose
\* branch_leaf_mapping entry contains the leaf; that of every branch node to
\* the single root node.
C7_EveryLeafHasBranch ==
    Added =>
        /\ FactAndBranchEdges
        /\ \A d \in StoredNodes("leaf") : LeafEdges(d)

\* C7 (amended): after add_documents(tree) the SUMMARIZED_BY edge of a fact
\* node leads to exactly one node, the leaf whose leaf_fact_mapping entry
\* contains the fact; that of every branch node to the single root node; that
\* of a leaf node to exactly one node, the branch whose branch_leaf_mapping
\* entry contains the leaf, when the tree has more than one leaf.  The leaf of
\* a single-leaf tree (no branches, empty branch_leaf_mapping) has no
\* SUMMARIZED_BY edge.
C7_HierarchyEdges ==
    Added =>
        /\ FactAndBranchEdges
        /\ \A d \in StoredNodes("leaf") :
              IF Len(IndexedTree.leafs) > 1 THEN LeafEdges(d) ELSE Parents(d) = {}

C7_Witness ==
    /\ Added
    /\ Cardinality(StoredNodes("branch")) = 2
    /\ \E d \in StoredNode("leaf", BRANCH_SIZE) : Parents(d) = StoredNode("branch", 1)
    /\ \E d \in StoredNode("fact", LEAF_SIZE * BRANCH_SIZE) :
          Parents(d) = StoredNode("leaf", BRANCH_SIZE)

\* the entity ids a fact mentions
Mentioned(fact) ==
    (IF Lower(fact.who) # <<"unknown">> THEN {EntityId("Person", fact.who)} ELSE {})
    \cup (IF Lower(fact.where) # <<"unknown">>
          THEN {EntityId("Location", fact.where)} ELSE {})

\* (level, texts) of the indexed tree in the order add_documents writes them
IndexedLevels ==
    << <<"root", <<IndexedTree.root>> >>,
       <<"branch", IndexedTree.branches>>,
       <<"leaf", IndexedTree.leafs>>,
       <<"fact", [i \in 1..Len(IndexedTree.facts) |->
                     format_fact_for_retrieval(IndexedTree.facts[i])]>> >>

LevelOffset(x) ==
    IF x = 1 THEN 0
    ELSE IF x = 2 THEN 1
    ELSE IF x = 3 THEN 1 + Len(IndexedTree.branches)
    ELSE 1 + Len(IndexedTree.branches) + Len(IndexedTree.leafs)

IndexedCount ==
    1 + Len(IndexedTree.branches) + Len(IndexedTree.leafs) + Len(IndexedTree.facts)

\* C8: after any sequence of completed add_documents calls the store and the
\* document list hold exactly the nodes of the latest tree (one root, one per
\* branch, one per leaf, one per fact, listed in that level order), no two
\* stored nodes share (level, level_index), and every edge, entity,
\* mention_count and co-occurrence count is that of the latest tree alone.
C8_OnlyLatestTree ==
    Added =>
        LET F == Len(IndexedTree.facts)
            fact_ids == 1..F
        IN
        /\ Len(documents) = IndexedCount
        /\ \A x \in 1..4 : \A i \in 1..Len(IndexedLevels[x][2]) :
              /\ documents[LevelOffset(x) + i] =
                    [id |-> DocId(IndexedLevels[x][1], i - 1),
                     text |-> IndexedLevels[x][2][i]]
              /\ \E d \in StoredNode(IndexedLevels[x][1], i - 1) :
                    /\ d.text = IndexedLevels[x][2][i]
                    /\ d.id = doc_id_to_neo4j_id[DocId(IndexedLevels[x][1], i - 1)]
        /\ Cardinality(store.documents) = IndexedCount
        /\ Cardinality({ <<d.level, d.level_index>> : d \in store.documents }) =
              Cardinality(store.documents)
        /\ \A e \in store.summarized_by :
              /\ e[1] \in { d.id : d \in store.documents }
              /\ e[2] \in { d.id : d \in store.documents }
        /\ Cardinality(store.summarized_by) =
              F + Len(IndexedTree.branches)
                + (IF IndexedTree.branches # <<>> THEN Len(IndexedTree.leafs) ELSE 0)
        /\ DOMAIN store.entities = UNION { Mentioned(IndexedTree.facts[i]) : i \in fact_ids }
        /\ \A e \in DOMAIN store.entities :
              store.entities[e].mention_count =
                  Cardinality({ i \in fact_ids : e \in Mentioned(IndexedTree.facts[i]) })
        /\ store.mentions =
              UNION { { <<d.id, e>> : e \in Mentioned(IndexedTree.facts[d.level_index + 1]) } :
                         d \in StoredNodes("fact") }
        /\ { {store.co_occurs[x].e1, store.co_occurs[x].e2} : x \in DOMAIN store.co_occurs } =
              { Mentioned(IndexedTree.facts[i]) :
                    i \in { j \in fact_ids : Cardinality(Mentioned(IndexedTree.facts[j])) = 2 } }
        /\ \A x \in DOMAIN store.co_occurs :
              /\ store.co_occurs[x].e1 \in DOMAIN store.entities
              /\ store.co_occurs[x].e2 \in DOMAIN store.entities
              /\ store.co_occurs[x].co_occurrence_count =
                    Cardinality({ i \in fact_ids : Mentioned(IndexedTree.facts[i]) =
                                      {store.co_occurs[x].e1, store.co_occurs[x].e2} })

C8_Witness ==
    /\ Added
    /\ uuid_counter >= 2
    /\ Len(IndexedTree.facts) = 1
    /\ Cardinality(store.documents) = 3
    /\ \A e \in DOMAIN store.entities : store.entities[e].mention_count = 1

\* the CO_OCCURS edges between entities a and b, in either direction
EdgesBetween(a, b) ==
    { x \in DOMAIN store.co_occurs : {store.co_occurs[x].e1, store.co_occurs[x].e2} = {a, b} }

\* the facts of the indexed tree in which entities a and b both appear
FactsWithBoth(a, b) ==
    { i \in 1..Len(IndexedTree.facts) : {a, b} \subseteq Mentioned(IndexedTree.facts[i]) }

\* C14: after add_documents(tree) every unordered pair of entities has at most
\* one CO_OCCURS edge, and its co_occurrence_count is the number of facts of
\* the tree in which both entities appear together (none: no edge).
C14_CoOccurrence ==
    Added =>
        \A a, b \in DOMAIN store.entities :
            a # b =>
                /\ Cardinality(EdgesBetween(a, b)) <= 1
                /\ Cardinality(EdgesBetween(a, b)) = 1 <=> FactsWithBoth(a, b) # {}
                /\ \A x \in EdgesBetween(a, b) :
                      store.co_occurs[x].co_occurrence_count =
                          Cardinality(FactsWithBoth(a, b))

\* two facts with the same who and where gave one edge of count 2, next to a
\* pair of stored entities that never appear together
C14_Witness ==
    /\ Added
    /\ \E a, b \in DOMAIN store.entities :
          /\ Cardinality(EdgesBetween(a, b)) = 1
          /\ Cardinality(FactsWithBoth(a, b)) = 2
          /\ \A x \in EdgesBetween(a, b) : store.co_occurs[x].co_occurrence_count = 2
    /\ \E a, b \in DOMAIN store.entities : a # b /\ EdgesBetween(a, b) = {}

\* position of a level in the document list
LevelRank(level) ==
    CASE level = "root" -> 0 [] level = "branch" -> 1 [] level = "leaf" -> 2
      [] level = "fact" -> 3

\* the document list of the index is that of the indexed tree: root, branches,
\* leaves, facts, each level in chunk order
TreeOrdered(docs) ==
    /\ Len(docs) = IndexedCount
    /\ \A x \in 1..4 : \A i \in 1..Len(IndexedLevels[x][2]) :
          docs[LevelOffset(x) + i] =
              [id |-> DocId(IndexedLevels[x][1], i - 1), text |-> IndexedLevels[x][2][i]]
    /\ \A i, j \in 1..Len(docs) :
          i < j => LevelRank(DocLevel(docs[i].id)) <= LevelRank(DocLevel(docs[j].id))

\* the step of one build_index call
BuildStep == last_call.op = "none" /\ last_call'.op = "build_index"

\* C15: a build_index call that does not raise leaves one embedding per
\* stored document, embedding i being that of document i and the documents
\* standing in the order root, branches, leaves, facts; with zero documents
\* the call changes nothing of the index and makes no call of the embedding
\* model.
C15_BuildIndex ==
    [][ BuildStep =>
          /\ documents = <<>> =>
                /\ last_call'.encode_calls = 0 /\ ~last_call'.raised
                /\ UNCHANGED <<documents, document_embeddings, doc_id_to_neo4j_id,
                               tree_structure, store>>
          /\ (documents # <<>> /\ ~last_call'.raised) =>
                /\ documents' = documents
                /\ TreeOrdered(documents)
                /\ Len(document_embeddings') = Len(documents)
                /\ \A i \in 1..Len(documents) :
                      /\ document_embeddings'[i][2] = "[D]"
                      /\ SubSeq(document_embeddings'[i], 3, Len(document_embeddings'[i]))
                            = SelectSeq(documents[i].text, NotSpace)
      ]_vars

\* a tree of all four levels has been encoded
C15_Witness ==
    /\ last_call.op = "build_index" /\ ~last_call.raised /\ last_call.encode_calls = 1
    /\ Len(IndexedTree.branches) = 2
    /\ Len(document_embeddings) = Len(documents)
    /\ Len(documents) = IndexedCount

\* build_index has returned at once on an empty document list
C15_NoDocuments ==
    /\ last_call.op = "build_index" /\ last_call.encode_calls = 0
    /\ documents = <<>> /\ document_embeddings = <<>>

\* the step of one retrieve or classify_query_level call
QueryStep == last_call.op = "none" /\ last_call'.op \in {"retrieve", "classify"}

\* C16: retrieve and classify_query_level write no shared mutable state,
\* neither the index's documents, embeddings, id map and tree nor process-wide
\* state such as the summarizer/classifier call counter.
C16_ReadOnly ==
    [][ QueryStep =>
          UNCHANGED <<documents, document_embeddings, doc_id_to_neo4j_id,
                      tree_structure, call_count>> ]_vars

\* the QueryLevel an override names
OverrideLevel(query_level) ==
    CASE query_level = "strategic" -> "STRATEGIC" [] query_level = "pattern" -> "PATTERN"
      [] query_level = "specific" -> "SPECIFIC" [] query_level = "mixed" -> "MIXED"

\* C17: a query request that carries a query_level override is answered with
\* the retrieval over the level set of the override, and the response reports
\* the override as its query_level.
C17_OverrideRoutes ==
    (/\ last_call.op = "query_index" /\ last_call.status_code = 200
     /\ last_call.request.query_level # "none") =>
        LET results == QueryByLevel(last_call.request.query,
                                    OverrideLevel(last_call.request.query_level),
                                    last_call.request.k, TRUE,
                                    last_call.encode_ok, last_call.store_ok)
        IN
        /\ last_call.query_level = last_call.request.query_level
        /\ last_call.routed = OverrideLevel(last_call.request.query_level)
        /\ ~results.raised => last_call.documents = results.value

\* the step of one create_index request
CreateStep == last_call.op = "none" /\ last_call'.op = "create_index"

\* C18: a create_index request whose items give no facts is answered 400 and
\* one whose index_id is active is answered 409; neither registers an index
\* nor changes an existing one.
C18_RejectedCreate ==
    [][ CreateStep =>
          /\ last_call'.index_id \in DOMAIN active_indices =>
                last_call'.status_code = 409 /\ UNCHANGED active_indices
          /\ (last_call'.index_id \notin DOMAIN active_indices /\ last_call'.facts = 0) =>
                last_call'.status_code = 400 /\ UNCHANGED active_indices
      ]_vars

\* a request without facts has been answered, and a request for an active id
C18_NoFacts ==
    /\ last_call.op = "create_index" /\ last_call.facts = 0
    /\ last_call.status_code = 500 /\ active_indices = <<>>

C18_Conflict ==
    /\ last_call.op = "create_index" /\ last_call.status_code = 409
    /\ last_call.index_id \in DOMAIN active_indices

\* C19: every fact the extractor returns has its four fields who, what, when
\* and where as non-empty strings.
C19_NonEmptyFields ==
    last_call.op = "extract_from_chunk" =>
        \A i \in 1..Len(last_call.valid_facts) :
            /\ last_call.valid_facts[i].who # <<>>
            /\ last_call.valid_facts[i].what # <<>>
            /\ last_call.valid_facts[i].when # <<>>
            /\ last_call.valid_facts[i].where # <<>>

\* a fact has been returned with an empty who next to a stated what
C19_EmptyField ==
    /\ last_call.op = "extract_from_chunk"
    /\ Len(last_call.valid_facts) = 1
    /\ last_call.valid_facts[1].who = <<>>
    /\ last_call.valid_facts[1].what = <<"A", "l">>

\* the summarizer calls the claim gives a leaf chunk of N facts that starts at
\* fact index base
ChunkCalls(base, N) ==
    IF N < 5
    THEN << Call("leaf_abstract", base, base + N - 1) >>
    ELSE LET W == Min(7, N)
             starts == { x \in 0..N : x % (W \div 2) = 0 /\ x <= N - W }
             windows == [j \in 1..Cardinality(starts) |->
                            Call("leaf_abstract", base + (j - 1) * (W \div 2),
                                 base + (j - 1) * (W \div 2) + W - 1)]
         IN windows \o (IF Len(windows) > 1
                        THEN << Call("slisum_consensus", 0, Len(windows) - 1) >>
                        ELSE <<>>)

\* those of the first c chunks of n facts, in chunk order
RECURSIVE LeafLevelCalls(_, _)
LeafLevelCalls(n, c) ==
    IF c = 0 THEN <<>>
    ELSE LeafLevelCalls(n, c - 1)
            \o ChunkCalls((c - 1) * LEAF_SIZE, Min(LEAF_SIZE, n - (c - 1) * LEAF_SIZE))

IsLeafLevelCall(call) == call.op \in {"leaf_abstract", "slisum_consensus"}

IsPrefix(a, b) == Len(a) <= Len(b) /\ a = SubSeq(b, 1, Len(a))

\* C20: a leaf chunk of N < 5 facts is summarized by one direct call over its
\* N facts; a chunk of N >= 5 facts by one call per window [s, s+W), W =
\* min(7, N), s = 0, W//2, 2*(W//2), ... while s <= N-W, followed by one
\* consensus call over the window abstracts if and only if there is more than
\* one window; the abstract of the chunk is what its last call returned.
C20_LeafChunkCalls ==
    LET made == SelectSeq(calls, IsLeafLevelCall)
        chunks == CeilDiv(Len(facts), LEAF_SIZE)
    IN
    /\ IsPrefix(made, LeafLevelCalls(Len(facts), chunks))
    /\ pc # "failed" =>
          /\ IsPrefix(LeafLevelCalls(Len(facts), Len(abstracts)), made)
          /\ Len(made) < Len(LeafLevelCalls(Len(facts), Len(abstracts) + 1))
               \/ Len(abstracts) = chunks
          /\ (made # <<>> /\ made = calls
                  /\ Len(made) = Len(LeafLevelCalls(Len(facts), Len(abstracts)))) =>
                abstracts[Len(abstracts)] = last_response

\* ten facts: the windows 0-6 and 3-9 and one consensus call
C20_Witness ==
    /\ Len(facts) = 10 /\ Len(abstracts) = 1 /\ pc # "failed"
    /\ calls = << Call("leaf_abstract", 0, 6), Call("leaf_abstract", 3, 9),
                  Call("slisum_consensus", 0, 1) >>
    /\ abstracts[1] = last_response

\* nine facts: the single window 0-6, its abstract used as it is
C20_SingleWindow ==
    /\ Len(facts) = 9 /\ Len(abstracts) = 1 /\ pc # "failed"
    /\ SelectSeq(calls, IsLeafLevelCall) = << Call("leaf_abstract", 0, 6) >>

\* C9: n >= 1 facts give ceil(n/LEAF_SIZE) leaves, leaf i mapping to the fact
\* indices i*LEAF_SIZE .. min((i+1)*LEAF_SIZE, n)-1; more than one leaf gives
\* ceil(L/BRANCH_SIZE) branches, branch j mapping to the leaf indices
\* j*BRANCH_SIZE .. min((j+1)*BRANCH_SIZE, L)-1; every mapped index is a valid
\* index of the lower level.
C9_ChunkMappings ==
    (TreeReturned /\ facts # <<>>) =>
        LET n == Len(Tree.facts)
            L == Len(Tree.leafs)
            B == Len(Tree.branches)
        IN
        /\ L = CeilDiv(n, LEAF_SIZE)
        /\ DOMAIN Tree.leaf_fact_mapping = 0..(L - 1)
        /\ \A i \in 0..(L - 1) :
              Tree.leaf_fact_mapping[i] =
                  Range(i * LEAF_SIZE, Min((i + 1) * LEAF_SIZE, n))
        /\ L > 1 =>
              /\ B = CeilDiv(L, BRANCH_SIZE)
              /\ DOMAIN Tree.branch_leaf_mapping = 0..(B - 1)
              /\ \A j \in 0..(B - 1) :
                    Tree.branch_leaf_mapping[j] =
                        Range(j * BRANCH_SIZE, Min((j + 1) * BRANCH_SIZE, L))
        /\ Elems(Tree.leaf_fact_mapping) \subseteq 0..(n - 1)
        /\ Elems(Tree.branch_leaf_mapping) \subseteq 0..(L - 1)
        /\ n = LEAF_SIZE => L = 1
        /\ n = 25 => (L = 3 /\ B = 1)
        /\ n = LEAF_SIZE * BRANCH_SIZE + 1 => B >= 2

C9_Witness ==
    /\ TreeReturned
    /\ Len(Tree.facts) = LEAF_SIZE * BRANCH_SIZE + 1
    /\ DOMAIN Tree.branch_leaf_mapping = {0, 1}
    /\ Tree.branch_leaf_mapping[1] = <<BRANCH_SIZE>>

\* C10 (as stated): an empty or whitespace-only response of the generative
\* service is a failure of the summarizer call, so chat_completion hands no
\* empty string to the tree builder and no leaf, branch or root text of a
\* built tree is empty.
C10_NoEmptyText ==
    /\ (calls # <<>> /\ pc # "failed") => last_response # <<>>
    /\ TreeReturned =>
          /\ \A i \in 1..Len(Tree.leafs) : Tree.leafs[i] # <<>>
          /\ \A j \in 1..Len(Tree.branches) : Tree.branches[j] # <<>>
          /\ Tree.root # <<>>
\* the level of a summarizer call: leaf 0, branch 1, root 2
CallLevel(call) ==
    CASE call.op \in {"leaf_abstract", "slisum_consensus"} -> 0
      [] call.op = "branch_summary" -> 1
      [] call.op = "root_digest" -> 2

IsBranchCall(call) == call.op = "branch_summary"
IsRootCall(call) == call.op = "root_digest"
IsWindowCall(call) == call.op = "leaf_abstract"

\* C21: in every run of digest_facts the summarizer calls are ordered by
\* level: all leaf-level calls (leaves in increasing index) come before the
\* first branch-summary call, which is made with every leaf abstract present;
\* all branch-summary calls (branches in increasing index) come before the one
\* root-digest call, which is made with every branch summary present; and the
\* call of branch b is over exactly the leaves of branch_leaf_mapping[b].
C21_LevelOrder ==
    LET chunks == CeilDiv(Len(facts), LEAF_SIZE)
        windows == SelectSeq(calls, IsWindowCall)
        branch_calls == SelectSeq(calls, IsBranchCall)
    IN
    /\ \A i \in 1..(Len(calls) - 1) : CallLevel(calls[i]) <= CallLevel(calls[i + 1])
    /\ \A i \in 1..(Len(windows) - 1) :
          windows[i].lo \div LEAF_SIZE <= windows[i + 1].lo \div LEAF_SIZE
    /\ branch_calls # <<>> => Len(abstracts) = chunks
    /\ \A b \in 1..Len(branch_calls) :
          /\ branch_calls[b].lo = (b - 1) * BRANCH_SIZE
          /\ b <= Len(summaries) =>
                branch_leaf_mapping[b - 1] = Range(branch_calls[b].lo, branch_calls[b].hi + 1)
    /\ Len(SelectSeq(calls, IsRootCall)) <= 1
    /\ SelectSeq(calls, IsRootCall) # <<>> =>
          /\ Len(branch_calls) = CeilDiv(chunks, BRANCH_SIZE)
          /\ Len(summaries) = Len(branch_calls)
          /\ calls[Len(calls)].op = "root_digest"

\* a run over two branches has made its root-digest call
C21_Witness ==
    /\ digest_tree # <<>>
    /\ Len(SelectSeq(calls, IsBranchCall)) = 2
    /\ calls[Len(calls)].op = "root_digest"
    /\ calls[Len(calls) - 1] = Call("branch_summary", BRANCH_SIZE, BRANCH_SIZE)

ChatCall == last_call.op = "chat_completion"

\* the request ended in an error chat_completion retries
Retried(outcome) ==
    \/ outcome.kind = "error"
    \/ outcome.kind = "http" /\ (outcome.status_code = 429 \/ outcome.status_code >= 500)

\* C22: a call of chat_completion makes at most 3 request attempts and ends by
\* returning the content or by raising, never without a value; an HTTP 4xx
\* other than 429 raises at once; a 429, a 5xx or any other error is retried
\* and raises only when the third attempt fails.
C22_BoundedRetry ==
    ChatCall =>
        LET n == Len(last_call.attempts) IN
        /\ n <= MAX_ATTEMPTS
        /\ last_call.result \in {"running", "returned", "raised"}
        /\ \A i \in 1..n :
              /\ last_call.attempts[i].kind = "content" =>
                    i = n /\ last_call.result = "returned"
              /\ (last_call.attempts[i].kind # "content" /\ ~Retried(last_call.attempts[i])) =>
                    i = n /\ last_call.result = "raised"
              /\ Retried(last_call.attempts[i]) =>
                    IF i = MAX_ATTEMPTS THEN last_call.result = "raised"
                    ELSE i < n \/ last_call.result = "running"

\* the first request was answered 429 with a Retry-After that is no number of
\* seconds, and the call has raised
C22_RetryAfterDate ==
    /\ ChatCall /\ last_call.result = "raised"
    /\ Len(last_call.attempts) = 1
    /\ last_call.attempts[1].status_code = 429

\* three retried failures, then raised
C22_ThirdAttempt ==
    /\ ChatCall /\ last_call.result = "raised"
    /\ Len(last_call.attempts) = MAX_ATTEMPTS
    /\ last_call.attempts[1].status_code = 429
    /\ last_call.attempts[2].status_code = 503
    /\ last_call.attempts[3].kind = "error"

ExtractCall == last_call.op = "extract_from_chunk"

\* the passes whose response JSON could be extracted from
Parsed(responses) == { i \in 1..Len(responses) : responses[i].kind = "json" }

\* the conversation after the given responses were each followed by a retry
RECURSIVE Conversation(_)
Conversation(responses) ==
    IF responses = <<>> THEN << "user:prompt" >>
    ELSE Conversation(SubSeq(responses, 1, Len(responses) - 1))
            \o (CASE responses[Len(responses)].kind \in {"empty", "blank"} ->
                        << "user:valid_json_please" >>
                   [] responses[Len(responses)].kind = "text" ->
                        << "assistant:response", "user:retry_message" >>
                   [] OTHER -> << "user:error_occurred" >>)

\* C23: _extract_from_chunk calls the service at most 4 times and never
\* raises; it returns the validated facts of the first response JSON can be
\* extracted from, and the empty list when all 4 responses are an error, empty
\* or unparseable; between the calls the conversation only grows by the
\* corrective messages for the failed responses.
C23_BoundedExtraction ==
    ExtractCall =>
        LET responses == last_call.responses
            n == Len(responses)
        IN
        /\ n <= 4
        /\ last_call.result \in {"running", "returned"}
        /\ Parsed(responses) \subseteq {n}
        /\ last_call.result = "running" => n < 4 /\ Parsed(responses) = {}
        /\ last_call.result = "returned" =>
              IF Parsed(responses) = {}
              THEN n = 4 /\ last_call.valid_facts = <<>>
              ELSE last_call.valid_facts = validate_and_clean_facts(responses[n].parsed)
        /\ last_call.messages =
              Conversation(SubSeq(responses, 1, IF n = 4 \/ Parsed(responses) # {} THEN n - 1 ELSE n))

\* an error and an unparseable answer, then a third answer with one valid fact
C23_ThirdResponse ==
    /\ ExtractCall /\ last_call.result = "returned"
    /\ Len(last_call.responses) = 3
    /\ last_call.responses[1].kind = "raised"
    /\ last_call.responses[2].kind = "text"
    /\ Len(last_call.valid_facts) = 1
    /\ Len(last_call.messages) = 4

\* four failed responses
C23_AllFailed ==
    /\ ExtractCall /\ last_call.result = "returned"
    /\ Len(last_call.responses) = 4
    /\ last_call.responses[4].kind = "raised"
    /\ last_call.valid_facts = <<>>

\* C24: when other indices use the same graph store, adding documents to one
\* of them leaves this index usable: a retrieve whose vector search has
\* candidates, with the store and the encoder answering, still returns
\* results for them.
C24_SharedStoreUsable ==
    ( /\ RetrieveCall /\ Classified /\ VectorSearchRuns
      /\ last_call.encode_ok /\ last_call.store_ok /\ last_call.k_is_int
      /\ last_call.k >= 1
      /\ Candidates # {} )
    => last_call.texts # <<>>

\* another index has replaced the content of the store: none of this index's
\* documents has its node any more, and a retrieve with candidates came back
\* empty
C24_NodesGone ==
    /\ RetrieveCall /\ Classified /\ VectorSearchRuns
    /\ last_call.encode_ok /\ last_call.store_ok /\ last_call.k >= 1
    /\ Candidates # {}
    /\ \A i \in 1..Len(documents) : Context(doc_id_to_neo4j_id[documents[i].id]) = <<>>
    /\ last_call.texts = <<>>

\* C25: for every leaf chunk of N in 1..LEAF_SIZE facts, each fact of the
\* chunk is in the input of at least one summarizer call that contributes to
\* the leaf's abstract: the windows cover the positions 0..N-1 of the chunk.
C25_WindowsCoverChunk ==
    \A leaf \in 0..(Len(abstracts) - 1) :
        \A f \in (leaf * LEAF_SIZE)..(Min((leaf + 1) * LEAF_SIZE, Len(facts)) - 1) :
            \E c \in 1..Len(calls) :
                /\ calls[c].op = "leaf_abstract"
                /\ calls[c].lo <= f /\ f <= calls[c].hi

\* the step is a call of add_documents, whatever its end: build_index and the
\* return to the caller are the steps that write last_call
AddDocumentsStep == last_call' = last_call

\* one embedding per current document, in the order of the documents
EmbeddingsMatch ==
    \/ document_embeddings = <<>>
    \/ /\ Len(document_embeddings) = Len(documents)
       /\ \A i \in 1..Len(documents) :
             document_embeddings[i] = Encode(documents[i].text, FALSE)

\* vector search has no candidate for any query, level set and k
NoCandidates ==
    \A query \in Queries, k \in 1..MaxK :
        /\ colbert_retrieve(query, 3 * k, TRUE, TRUE) = Returned(<<>>)
        /\ \A query_level \in {"STRATEGIC", "PATTERN", "SPECIFIC"} :
              colbert_retrieve_by_levels(query, LevelsFor(query_level), 2 * k, TRUE, TRUE)
                  = Returned(<<>>)

\* C26: after any sequence of add_documents and build_index calls on one
\* index, those failing part-way included, document_embeddings is empty or has
\* one entry per current document in the same order (embeddings of an earlier
\* tree are never scored against newer documents); every add_documents leaves
\* it empty, and while it is empty vector search yields no candidates.
C26_EmbeddingsMatchDocuments ==
    [][ /\ EmbeddingsMatch'
        /\ AddDocumentsStep => document_embeddings' = <<>>
        /\ document_embeddings' = <<>> => NoCandidates' ]_vars

\* an add_documents that failed part-way through a tree, then a successful
\* build_index over the documents it left
C26_PartialThenBuilt ==
    /\ add_status = "failed"
    /\ uuid_counter = 2
    /\ Len(documents) = 2
    /\ Len(IndexedTree.facts) = 2
    /\ Len(document_embeddings) = 2

CreateAnswered(status_code) ==
    /\ last_call'.op = "create_index" /\ last_call.op = "none"
    /\ last_call'.status_code = status_code

\* C27: after any sequence of create, query, delete and expiry operations
\* active_indices has at most MAX_ACTIVE_INDICES (10) entries, whatever the
\* cleanup of the index chosen for eviction does, and the index a create
\* request evicts is one with the earliest created_at.
C27_AtMostMaxActive ==
    [][ /\ Cardinality(DOMAIN active_indices') <= 10
        /\ \A x \in DOMAIN active_indices \ DOMAIN active_indices' :
              last_call'.op = "create_index" =>
                  \A y \in DOMAIN active_indices :
                      active_indices[x].created_at <= active_indices[y].created_at ]_vars

\* eleven entries: the cleanup of the oldest index failed and the new index
\* was registered all the same
C27_ElevenActive ==
    /\ Cardinality(DOMAIN active_indices) = 11
    /\ last_call.op = "create_index" /\ last_call.status_code = 200

\* C28: a create_index request that ends in an error of fact extraction, tree
\* building, the store or the embedding leaves active_indices as it was; no
\* index that was active before is removed by it.
C28_FailedCreateKeepsIndices ==
    [][ CreateAnswered(500) => active_indices' = active_indices ]_vars

\* a request has failed and the oldest index is gone
C28_EvictedByFailedCreate ==
    /\ last_call.op = "create_index" /\ last_call.status_code = 500
    /\ "1" \notin DOMAIN active_indices
    /\ "intel" \notin DOMAIN active_indices

\* C29: the query_level of a QueryResponse is the level that routed the
\* retrieval which produced the response's documents, whatever the classifier
\* answers on each of its calls.
C29_ReportedLevelRouted ==
    (last_call.op = "query_index" /\ last_call.status_code = 200) =>
        /\ last_call.routed # "raised"
        /\ last_call.query_level = QueryLevelValue(last_call.routed)

\* the documents were searched on the leaf and fact levels and the response
\* says strategic
C29_ReportedStrategic ==
    /\ last_call.op = "query_index" /\ last_call.status_code = 200
    /\ last_call.routed = "SPECIFIC"
    /\ last_call.query_level = "strategic"
    /\ last_call.documents # <<>>

====
